---- MODULE Spec2Model ----
(***************************************************************************)
(* Dialect-aware migration filesystem resolver of go-persistence-bun       *)
(* (src/dialect_migrations.go): alias table, annotation scanner, layer     *)
(* collector, filesystem assembler, dialect resolver, validation reporter. *)
(*                                                                         *)
(* Text.  A Go string is a sequence of chunks.  A chunk is a run of        *)
(* characters that the code never looks into: a blank (" ", "\t"), a       *)
(* field separator (",", ";"), the annotation marker, a file extension or  *)
(* a word.  strings.ToLower acts chunk by chunk (LowerChunk),              *)
(* strings.TrimSpace strips the blanks at both ends, strings.HasPrefix and *)
(* strings.HasSuffix compare the first and the last chunk.                 *)
(***************************************************************************)
EXTENDS Integers, Sequences, FiniteSets, TLC

VARIABLES
    tree,       \* the registration's source filesystem (dialectRegistration.root)
    db,         \* the live connection handed to resolveDialect / validate
    opts,       \* dialectOptions of the registration
    nopts,      \* number of functional options applied so far
    pc,         \* position: "config", "validating", "reporting", "done"
    op,         \* the operation that ran: "none", "build", "validate"
    res,        \* dialectBuildResult and error of the last buildFileSystems
    val,        \* the running validate call (targets, index, result, return)
    calls,      \* calls made so far: of the resolver callback, of build (with
                \* what each returned), of the validation callback
    tables,     \* the alias maps in memory, by the place that holds them: the
                \* package's defaultDialectAliases, the registration's own
                \* map and the map of another registration
    Files,      \* Migrations.Files: the registered SQL filesystems
    mx,         \* Migrations.mx: the goroutine that holds it, 0 when free
    calling,    \* the goroutines calling RegisterSQLMigrations: position,
                \* arguments and the slice value append has read
    copts,      \* clientOptions while the client options are applied
    cfg,        \* the Config handed to applyQueryHooks
    client      \* the client being made: the options applied so far and,
                \* once applyQueryHooks has run, the query hooks of its db

dialectVars == <<tree, db, opts, nopts, pc, op, res, val, calls, tables>>

migrationVars == <<Files, mx, calling>>

clientVars == <<copts, cfg, client>>

vars == <<dialectVars, migrationVars, clientVars>>

----------------------------------------------------------------------------
(* Bounds of the model *)

MaxFiles == 2

MaxOptions == 2
MaxGoroutines == 3
MaxClientOptions == 5
MaxHooks == 4

----------------------------------------------------------------------------
(* Constants of the program *)

commonDirName == <<"common">>

defaultDialectName == <<"postgres">>

dialectAnnotationPrefix == "---bun:dialect:"

sqlFileExtension == ".sql"

layerRoot == 0

layerCommon == 1

layerDialect == 2

defaultDialectAliases ==
    (<<"postgres">> :> <<"postgres">>) @@ (<<"postgresql">> :> <<"postgres">>)
    @@ (<<"pg">> :> <<"postgres">>) @@ (<<"pgdialect">> :> <<"postgres">>)
    @@ (<<"sqlite">> :> <<"sqlite">>) @@ (<<"sqlite3">> :> <<"sqlite">>)
    @@ (<<"sqldialect">> :> <<"sqlite">>)

defaultSourceLabel == <<"<embedded fs>">>

\* An error is the chain of its messages, outermost first; nil is the empty chain.
NoErr == <<>>

\* errors.Is(err, fs.ErrNotExist)
IsNotExist(err) == \E i \in DOMAIN err : err[i] = "ENOENT"

----------------------------------------------------------------------------
(* strings: ToLower, TrimSpace, FieldsFunc over chunk sequences *)

LowerChunk(c) ==
    CASE c = "PG" -> "pg"
      [] c = "Postgres" -> "postgres"
      [] c = "SQLite3" -> "sqlite3"
      [] c = "MySQL" -> "mysql"
      [] c = "Maria" -> "maria"
      [] c = "---BUN:Dialect:" -> "---bun:dialect:"
      [] c = ".SQL" -> ".sql"
      [] OTHER -> c

ToLower(s) == [i \in DOMAIN s |-> LowerChunk(s[i])]

IsSpace(c) == c \in {" ", "\t"}

TrimSpace(s) ==
    LET keep == {i \in DOMAIN s : ~IsSpace(s[i])}
    IN  IF keep = {} THEN <<>>
        ELSE LET lo == CHOOSE i \in keep : \A j \in keep : i <= j
                 hi == CHOOSE i \in keep : \A j \in keep : j <= i
             IN  SubSeq(s, lo, hi)

IsFieldSep(c) == c \in {",", ";", " ", "\t"}

RECURSIVE FieldsFrom(_, _, _)
\* strings.FieldsFunc: the maximal runs of chunks that are no separators.
FieldsFrom(s, i, cur) ==
    IF i > Len(s)
    THEN IF cur = <<>> THEN <<>> ELSE <<cur>>
    ELSE IF IsFieldSep(s[i])
         THEN (IF cur = <<>> THEN <<>> ELSE <<cur>>) \o FieldsFrom(s, i + 1, <<>>)
         ELSE FieldsFrom(s, i + 1, Append(cur, s[i]))

FieldsFunc(s) == FieldsFrom(s, 1, <<>>)

Contains(seq, x) == \E i \in DOMAIN seq : seq[i] = x

----------------------------------------------------------------------------
(* Alias table *)

\* Faulty variant: the alias table is not consulted
normalizeNoAlias(o, name) == ToLower(TrimSpace(name))

\* Faulty variant: a name the alias table does not hold normalizes to "no dialect"
normalizeKnownOnly(o, name) ==
    IF ToLower(TrimSpace(name)) \in DOMAIN o.aliases
    THEN o.aliases[ToLower(TrimSpace(name))]
    ELSE <<>>

normalize(o, name) ==
    LET n == ToLower(TrimSpace(name))
    IN  IF n = <<>> THEN <<>>
        ELSE IF n \in DOMAIN o.aliases THEN o.aliases[n]
        ELSE n

RECURSIVE normalizeAll(_, _, _)
\* the loop shared by validationTargets and extractDialects: normalize each
\* name, drop the blank ones and the ones already seen, keep the order.
normalizeAll(o, names, seen) ==
    IF names = <<>> THEN seen
    ELSE LET normalized == normalize(o, Head(names))
         IN  IF normalized # <<>> /\ ~Contains(seen, normalized)
             THEN normalizeAll(o, Tail(names), Append(seen, normalized))
             ELSE normalizeAll(o, Tail(names), seen)

\* Faulty variant: the targets are trimmed and lower-cased, not normalized
validationTargetsUnaliased(o) ==
    [k \in DOMAIN o.rawTargets |-> ToLower(TrimSpace(o.rawTargets[k]))]

validationTargets(o) ==
    IF Len(o.rawTargets) = 0 THEN <<>>
    ELSE normalizeAll(o, o.rawTargets, <<>>)

----------------------------------------------------------------------------
(* The source filesystem (fs.FS).  tree.entries lists the directory entries *)
(* in the order the filesystem enumerates them; an entry is a file or a     *)
(* directory, with the error (nil, EIO, ENOENT) that reading the file or    *)
(* listing the directory gives.  tree.sub tells what fs.Sub does on a    *)
(* missing directory: "lazy" (io/fs's own subFS wrapper, as for embed.FS,   *)
(* fstest.MapFS and os.DirFS, which never looks) or "checks" (an fs.SubFS   *)
(* implementation that reports fs.ErrNotExist).                             *)

IsPrefix(p, q) == Len(p) <= Len(q) /\ SubSeq(q, 1, Len(p)) = p

IsUnder(at, path) == Len(at) < Len(path) /\ IsPrefix(at, path)

RelPath(at, path) == SubSeq(path, Len(at) + 1, Len(path))

DirExists(t, d) ==
    \/ d = <<>>
    \/ \E i \in DOMAIN t.entries :
          \/ IsUnder(d, t.entries[i].path)
          \/ t.entries[i].dir /\ t.entries[i].path = d

\* fs.ValidPath, for the directory names the alias table can hold.
ValidPath(dir) == \A i \in DOMAIN dir : dir[i] \notin {"..", "/"}

NoReason == [msg |-> "", arg |-> <<>>]

Reason(m, a) == [msg |-> m, arg |-> a]

\* err.Error()
ErrText(err) == [msg |-> "error", arg |-> <<err>>]

NilFS == [nil |-> TRUE, files |-> <<>>]

openSubFS(fsys, dir) ==
    IF dir = <<>> THEN [sub |-> <<>>, exists |-> FALSE, err |-> NoErr]
    ELSE IF ~ValidPath(dir) THEN [sub |-> <<>>, exists |-> FALSE, err |-> <<"sub", "EINVAL">>]
    ELSE IF fsys.sub = "checks" /\ ~DirExists(fsys, <<dir>>)
         THEN [sub |-> <<>>, exists |-> FALSE, err |-> NoErr]
    ELSE [sub |-> <<dir>>, exists |-> TRUE, err |-> NoErr]

----------------------------------------------------------------------------
(* Annotation scanner *)

RECURSIVE scanLines(_, _, _)
scanLines(o, data, dialects) ==
    IF data = <<>> THEN dialects
    ELSE LET line == TrimSpace(Head(data))
         IN  IF line = <<>> THEN scanLines(o, Tail(data), dialects)
             ELSE IF ToLower(line)[1] # dialectAnnotationPrefix
                  THEN scanLines(o, Tail(data), dialects)
             ELSE LET value == TrimSpace(Tail(line))
                  IN  IF value = <<>> THEN scanLines(o, Tail(data), dialects)
                      ELSE scanLines(o, Tail(data),
                                     normalizeAll(o, FieldsFunc(value), dialects))

extractDialects(o, data) == scanLines(o, data, <<>>)

\* Faulty variant: annotations are ignored: every SQL file is included
shouldIncludeAll(b, data) == TRUE

shouldInclude(b, data) ==
    LET dialects == extractDialects(b.opts, data)
    IN  \/ Len(dialects) = 0
        \/ \E i \in DOMAIN dialects : dialects[i] = b.dialect

----------------------------------------------------------------------------
(* Layer collector *)

HasSQLSuffix(path) ==
    LET base == ToLower(path[Len(path)])
    IN  base # <<>> /\ base[Len(base)] = sqlFileExtension

RECURSIVE walkDir(_, _, _, _, _, _)
\* fs.WalkDir with collectLayer's callback, over the entries below `at` in the
\* filesystem's order.  acc = [files, total, err]; the first error ends the walk.
walkDir(b, fsys, at, skipSubdirs, i, acc) ==
    IF i > Len(fsys.entries) \/ acc.err # NoErr THEN acc
    ELSE LET e == fsys.entries[i]
             path == RelPath(at, e.path)
             next(a) == walkDir(b, fsys, at, skipSubdirs, i + 1, a)
         IN  IF ~IsUnder(at, e.path) THEN next(acc)
             ELSE IF skipSubdirs /\ Len(path) > 1 THEN next(acc)
             ELSE IF e.dir
                  THEN IF skipSubdirs THEN next(acc)
                       ELSE IF e.err # NoErr THEN [acc EXCEPT !.err = e.err]
                       ELSE next(acc)
             ELSE IF ~HasSQLSuffix(path) THEN next(acc)
             ELSE IF e.err # NoErr
                  THEN [acc EXCEPT !.total = @ + 1, !.err = e.err]
             ELSE IF ~shouldInclude(b, e.data)
                  THEN next([acc EXCEPT !.total = @ + 1])
             ELSE next([acc EXCEPT !.total = @ + 1,
                                   !.files = (path :> e.data) @@ @])

\* The error fs.WalkDir reports for the walk's root itself: the directory is
\* missing, or listing it fails.
RootErr(fsys, at) ==
    IF ~DirExists(fsys, at) THEN <<"ENOENT">>
    ELSE IF \E i \in DOMAIN fsys.entries :
               fsys.entries[i].dir /\ fsys.entries[i].path = at
                   /\ fsys.entries[i].err # NoErr
         THEN LET i == CHOOSE k \in DOMAIN fsys.entries :
                           fsys.entries[k].dir /\ fsys.entries[k].path = at
                               /\ fsys.entries[k].err # NoErr
              IN  fsys.entries[i].err
    ELSE NoErr

\* Faulty variant: a missing directory is returned as an error like any other
layerOfStrict(b, diag, walk) ==
    IF walk.err # NoErr
    THEN [fs |-> NilFS, err |-> walk.err,
          diag |-> [diag EXCEPT !.Reason = ErrText(walk.err)]]
    ELSE IF Cardinality(DOMAIN walk.files) = 0
         THEN [fs |-> NilFS, err |-> NoErr,
               diag |-> [diag EXCEPT !.Reason = Reason("no SQL files found in", <<diag.Name>>)]]
    ELSE [fs |-> [nil |-> FALSE, files |-> walk.files], err |-> NoErr,
          diag |-> [diag EXCEPT !.Files = Cardinality(DOMAIN walk.files)]]

\* Faulty variant: the count of SQL files met is not looked at
layerOfNoTotal(b, diag, walk) ==
    IF walk.err # NoErr
    THEN IF IsNotExist(walk.err)
         THEN [fs |-> NilFS, err |-> NoErr,
               diag |-> [diag EXCEPT !.Reason = Reason("directory not found", <<>>)]]
         ELSE [fs |-> NilFS, err |-> walk.err,
               diag |-> [diag EXCEPT !.Reason = ErrText(walk.err)]]
    ELSE IF Cardinality(DOMAIN walk.files) = 0
         THEN [fs |-> NilFS, err |-> NoErr,
               diag |-> [diag EXCEPT !.Reason = Reason("no SQL files found in", <<diag.Name>>)]]
    ELSE [fs |-> [nil |-> FALSE, files |-> walk.files], err |-> NoErr,
          diag |-> [diag EXCEPT !.Files = Cardinality(DOMAIN walk.files)]]

\* collectLayer after the walk: the error, or the files and the diagnostic.
layerOf(b, diag, walk) ==
    IF walk.err # NoErr
    THEN IF IsNotExist(walk.err)
         THEN [fs |-> NilFS, err |-> NoErr,
               diag |-> [diag EXCEPT !.Reason = Reason("directory not found", <<>>)]]
         ELSE [fs |-> NilFS, err |-> walk.err,
               diag |-> [diag EXCEPT !.Reason = ErrText(walk.err)]]
    ELSE IF Cardinality(DOMAIN walk.files) = 0
         THEN IF walk.total = 0
              THEN [fs |-> NilFS, err |-> NoErr,
                    diag |-> [diag EXCEPT
                                !.Reason = Reason("no SQL files found in", <<diag.Name>>)]]
              ELSE [fs |-> NilFS, err |-> NoErr,
                    diag |-> [diag EXCEPT
                                !.Reason = Reason("SQL files exist but none match dialect",
                                                  <<b.dialect>>)]]
    ELSE [fs |-> [nil |-> FALSE, files |-> walk.files], err |-> NoErr,
          diag |-> [diag EXCEPT !.Files = Cardinality(DOMAIN walk.files)]]

collectLayer(b, fsys, at, layer, name, skipSubdirs) ==
    layerOf(b, [Layer |-> layer, Name |-> name, Files |-> 0, Reason |-> NoReason],
            walkDir(b, fsys, at, skipSubdirs, 1,
                    [files |-> <<>>, total |-> 0, err |-> RootErr(fsys, at)]))

----------------------------------------------------------------------------
(* Dialect filesystem assembler *)

RECURSIVE addAll(_, _)
\* candidateDirectories' add(), for each value in turn.
addAll(values, dirs) ==
    IF values = <<>> THEN dirs
    ELSE LET value == TrimSpace(Head(values))
         IN  IF value = <<>> \/ Contains(dirs, value)
             THEN addAll(Tail(values), dirs)
             ELSE addAll(Tail(values), Append(dirs, value))

\* Faulty variant: the aliases are listed before the canonical name
candidateDirectoriesAliasFirst(o, name, iter) ==
    LET canonical == normalize(o, name)
        hits == SelectSeq(iter, LAMBDA alias : o.aliases[alias] = canonical)
    IN  IF canonical = <<>> THEN <<>>
        ELSE addAll(hits \o <<canonical>>, <<>>)

\* iter is the order in which Go's range enumerates the keys of o.aliases.
candidateDirectories(o, name, iter) ==
    LET canonical == normalize(o, name)
        hits == SelectSeq(iter, LAMBDA alias : o.aliases[alias] = canonical)
    IN  IF canonical = <<>> THEN <<>>
        ELSE addAll(<<canonical>> \o hits, <<>>)

\* Faulty variant: a missing common directory is given no reason
buildCommonLayerSilent(b) ==
    LET diag == [Layer |-> layerCommon, Name |-> commonDirName, Files |-> 0,
                 Reason |-> NoReason]
        opened == openSubFS(b.root, commonDirName)
    IN  IF opened.err # NoErr
        THEN [fs |-> NilFS, err |-> opened.err,
              diag |-> [diag EXCEPT !.Reason = ErrText(opened.err)]]
        ELSE IF ~opened.exists
        THEN [fs |-> NilFS, err |-> NoErr, diag |-> diag]
        ELSE collectLayer(b, b.root, opened.sub, layerCommon, commonDirName, FALSE)

buildCommonLayer(b) ==
    LET diag == [Layer |-> layerCommon, Name |-> commonDirName, Files |-> 0,
                 Reason |-> NoReason]
        opened == openSubFS(b.root, commonDirName)
    IN  IF opened.err # NoErr
        THEN [fs |-> NilFS, err |-> opened.err,
              diag |-> [diag EXCEPT !.Reason = ErrText(opened.err)]]
        ELSE IF ~opened.exists
        THEN [fs |-> NilFS, err |-> NoErr,
              diag |-> [diag EXCEPT !.Reason = Reason("directory not found", <<>>)]]
        ELSE collectLayer(b, b.root, opened.sub, layerCommon, commonDirName, FALSE)

\* Faulty variant: the root layer descends into the subdirectories
buildRootLayerDeep(b) == collectLayer(b, b.root, <<>>, layerRoot, <<"root">>, FALSE)

buildRootLayer(b) == collectLayer(b, b.root, <<>>, layerRoot, <<"root">>, TRUE)

RECURSIVE probeCandidates(_, _, _)
\* buildDialectLayer's loop over the candidate directories, from the i-th on.
probeCandidates(b, candidates, i) ==
    LET diag == [Layer |-> layerDialect, Name |-> b.dialect, Files |-> 0,
                 Reason |-> NoReason]
    IN  IF i > Len(candidates)
        THEN IF Len(candidates) > 0
             THEN [fs |-> NilFS, err |-> NoErr,
                   diag |-> [diag EXCEPT
                     !.Reason = Reason("no dialect-specific directory found (searched:",
                                       candidates)]]
             ELSE [fs |-> NilFS, err |-> NoErr,
                   diag |-> [diag EXCEPT
                     !.Reason = Reason("no dialect directory configured", <<>>)]]
        ELSE LET opened == openSubFS(b.root, candidates[i])
             IN  IF opened.err # NoErr
                 THEN [fs |-> NilFS, err |-> opened.err,
                       diag |-> [diag EXCEPT !.Reason = ErrText(opened.err)]]
                 ELSE IF ~opened.exists THEN probeCandidates(b, candidates, i + 1)
                 ELSE collectLayer(b, b.root, opened.sub, layerDialect,
                                   candidates[i], FALSE)

buildDialectLayer(b) ==
    probeCandidates(b, candidateDirectories(b.opts, b.dialect, b.iter), 1)

\* Appends one layer's outcome to the result, as each of build's three blocks does.
addLayer(result, lay) ==
    [result EXCEPT
        !.diagnostics = Append(@, lay.diag),
        !.fileSystems = IF lay.err = NoErr /\ ~lay.fs.nil THEN Append(@, lay.fs.files)
                        ELSE @,
        !.err = lay.err]

\* Faulty variant: the dialect layer is collected even after the root layer failed
thenDialectAlways(b, result) == addLayer(result, buildDialectLayer(b))

\* build after the root layer: return on its error, else the dialect layer.
thenDialect(b, result) ==
    IF result.err # NoErr THEN result
    ELSE addLayer(result, buildDialectLayer(b))

\* build after the common layer: return on its error, else the root layer.
thenRoot(b, result) ==
    IF result.err # NoErr THEN result
    ELSE thenDialect(b, addLayer(result, buildRootLayer(b)))

\* Faulty variant: the root layer is collected before the common layer
buildRootFirst(b) ==
    thenDialect(b, addLayer(addLayer([dialect |-> b.dialect, fileSystems |-> <<>>,
                                      diagnostics |-> <<>>, err |-> NoErr],
                                     buildRootLayer(b)),
                            buildCommonLayer(b)))

build(b) ==
    thenRoot(b, addLayer([dialect |-> b.dialect, fileSystems |-> <<>>,
                          diagnostics |-> <<>>, err |-> NoErr],
                         buildCommonLayer(b)))

buildForDialect(r, name, iter) ==
    build([root |-> r.root, dialect |-> name, opts |-> r.opts, iter |-> iter])

\* Faulty variant: only the first layer's diagnostic is looked at
hasSQLFirst(r) == r.diagnostics # <<>> /\ r.diagnostics[1].Files > 0

hasSQL(r) == \E i \in DOMAIN r.diagnostics : r.diagnostics[i].Files > 0

----------------------------------------------------------------------------
(* Dialect resolver *)

\* apierrors.Wrap(err, category, message)
Wrap(err, message) == <<message>> \o err

\* The live connection's db.Dialect().Name().String(); "" when there is none.
dbDialectName(d) == IF d.present THEN d.name ELSE <<>>

\* Faulty variant: the live connection is consulted before the resolver callback
resolveDialectDBFirst(r, d) ==
    LET o == r.opts
        viaResolver == IF o.resolver.set THEN normalize(o, o.resolver.name) ELSE <<>>
        viaDB == IF dbDialectName(d) # <<>> THEN normalize(o, dbDialectName(d)) ELSE <<>>
    IN  IF o.explicitDialect # <<>>
        THEN [name |-> o.explicitDialect, err |-> NoErr, asked |-> FALSE]
        ELSE IF viaDB # <<>>
        THEN [name |-> viaDB, err |-> NoErr, asked |-> FALSE]
        ELSE IF o.resolver.set /\ o.resolver.err # NoErr
        THEN [name |-> <<>>, err |-> Wrap(o.resolver.err, "dialect resolver failed"),
              asked |-> TRUE]
        ELSE IF viaResolver # <<>>
        THEN [name |-> viaResolver, err |-> NoErr, asked |-> TRUE]
        ELSE [name |-> o.defaultDialect, err |-> NoErr, asked |-> o.resolver.set]

\* Faulty variant: a failed resolver callback counts as "no answer"
resolveDialectFallback(r, d) ==
    LET o == r.opts
        viaResolver == IF o.resolver.set /\ o.resolver.err = NoErr
                       THEN normalize(o, o.resolver.name) ELSE <<>>
        viaDB == IF dbDialectName(d) # <<>> THEN normalize(o, dbDialectName(d)) ELSE <<>>
    IN  IF o.explicitDialect # <<>>
        THEN [name |-> o.explicitDialect, err |-> NoErr, asked |-> FALSE]
        ELSE IF viaResolver # <<>>
        THEN [name |-> viaResolver, err |-> NoErr, asked |-> TRUE]
        ELSE IF viaDB # <<>>
        THEN [name |-> viaDB, err |-> NoErr, asked |-> o.resolver.set]
        ELSE [name |-> o.defaultDialect, err |-> NoErr, asked |-> o.resolver.set]

\* asked: whether the resolver callback was invoked.
resolveDialect(r, d) ==
    LET o == r.opts
        viaResolver == IF o.resolver.set THEN normalize(o, o.resolver.name) ELSE <<>>
        viaDB == IF dbDialectName(d) # <<>> THEN normalize(o, dbDialectName(d)) ELSE <<>>
    IN  IF o.explicitDialect # <<>>
        THEN [name |-> o.explicitDialect, err |-> NoErr, asked |-> FALSE]
        ELSE IF o.resolver.set /\ o.resolver.err # NoErr
        THEN [name |-> <<>>, err |-> Wrap(o.resolver.err, "dialect resolver failed"),
              asked |-> TRUE]
        ELSE IF viaResolver # <<>>
        THEN [name |-> viaResolver, err |-> NoErr, asked |-> TRUE]
        ELSE IF viaDB # <<>>
        THEN [name |-> viaDB, err |-> NoErr, asked |-> o.resolver.set]
        ELSE IF o.defaultDialect # <<>>
        THEN [name |-> o.defaultDialect, err |-> NoErr, asked |-> o.resolver.set]
        ELSE [name |-> defaultDialectName, err |-> NoErr, asked |-> o.resolver.set]

----------------------------------------------------------------------------
(* Functional options *)

noResolver == [set |-> FALSE, name |-> <<>>, err |-> NoErr]

\* A fresh map with the lower-cased keys and values of src.
copyDialectAliases(src) ==
    [k \in {ToLower(a) : a \in DOMAIN src} |->
        ToLower(src[CHOOSE a \in DOMAIN src : ToLower(a) = k])]

\* Faulty variant: a configuration uses the package's map itself
aliasesShared(config) == "defaults"

\* Where the alias map of a configuration lives: copyDialectAliases makes a
\* map of its own for each call of defaultDialectOptions.
aliasesOf(config) == config

defaultDialectOptions ==
    [explicitDialect |-> <<>>,
     defaultDialect  |-> defaultDialectName,
     aliases         |-> copyDialectAliases(defaultDialectAliases),
     resolver        |-> noResolver,
     validator       |-> "nil",
     validateDefault |-> FALSE,
     rawTargets      |-> <<>>,
     sourceLabel     |-> defaultSourceLabel]

WithDialectName(o, name) == [o EXCEPT !.explicitDialect = normalize(o, name)]

WithDefaultDialect(o, name) ==
    IF normalize(o, name) # <<>>
    THEN [o EXCEPT !.defaultDialect = normalize(o, name)]
    ELSE o

\* One iteration of WithDialectAliases' loop.
putAlias(aliases, alias, canonical) ==
    LET a == ToLower(TrimSpace(alias))
        c == ToLower(TrimSpace(canonical))
        set == (a :> c) @@ aliases
    IN  IF a = <<>> \/ c = <<>> THEN aliases
        ELSE IF c \in DOMAIN set THEN set
        ELSE (c :> c) @@ set

RECURSIVE putAliases(_, _)
putAliases(aliases, overrides) ==
    IF overrides = <<>> THEN aliases
    ELSE putAliases(putAlias(aliases, Head(overrides).alias, Head(overrides).canonical),
                    Tail(overrides))

\* overrides lists the pairs of the map in the order Go's range enumerates them.
WithDialectAliases(o, overrides) ==
    [o EXCEPT !.aliases = putAliases(@, overrides)]

WithDialectResolver(o, resolver) == [o EXCEPT !.resolver = resolver]

\* Faulty variant: a call without names keeps the explicit targets
WithValidationTargetsKeep(o, names) ==
    IF Len(names) = 0
    THEN [o EXCEPT !.validateDefault = TRUE]
    ELSE [o EXCEPT !.rawTargets = names, !.validateDefault = FALSE]

WithValidationTargets(o, names) ==
    IF Len(names) = 0
    THEN [o EXCEPT !.validateDefault = TRUE, !.rawTargets = <<>>]
    ELSE [o EXCEPT !.rawTargets = names, !.validateDefault = FALSE]

WithDialectValidator(o, fn) == [o EXCEPT !.validator = fn]

WithDialectSourceLabel(o, label) ==
    IF TrimSpace(label) = <<>>
    THEN [o EXCEPT !.sourceLabel = defaultSourceLabel]
    ELSE [o EXCEPT !.sourceLabel = TrimSpace(label)]

----------------------------------------------------------------------------
(* Validation reporter *)

layerName(d) ==
    IF d.Layer = layerCommon THEN <<"common">>
    ELSE IF d.Layer = layerDialect THEN <<"dialect-specific">>
    ELSE <<"root">>

RECURSIVE reasonsOf(_)
reasonsOf(diags) ==
    IF diags = <<>> THEN <<>>
    ELSE LET diag == Head(diags)
             label == IF diag.Name = <<>> THEN layerName(diag) ELSE diag.Name
         IN  IF diag.Files > 0 \/ diag.Reason = NoReason THEN reasonsOf(Tail(diags))
             ELSE <<[label |-> label, reason |-> diag.Reason]>> \o reasonsOf(Tail(diags))

\* Faulty variant: only the first reason is kept
reasonsFromDiagnosticsFirst(diags) ==
    IF reasonsOf(diags) = <<>>
    THEN <<[label |-> <<>>,
            reason |-> Reason("no SQL files discovered across any layer", <<>>)]>>
    ELSE <<Head(reasonsOf(diags))>>

reasonsFromDiagnostics(diags) ==
    IF reasonsOf(diags) = <<>>
    THEN <<[label |-> <<>>,
            reason |-> Reason("no SQL files discovered across any layer", <<>>)]>>
    ELSE reasonsOf(diags)

RECURSIVE dedupe(_, _)
\* validate's first loop: the targets, without the blank and the repeated ones.
dedupe(targets, acc) ==
    IF targets = <<>> THEN acc
    ELSE IF Head(targets) = <<>> \/ Contains(acc, Head(targets))
         THEN dedupe(Tail(targets), acc)
         ELSE dedupe(Tail(targets), Append(acc, Head(targets)))

\* Faulty variant: the resolved dialect is validated whether asked for or not
validateTargetsAlways(r, d) ==
    LET normalizedTargets == dedupe(validationTargets(r.opts), <<>>)
        resolved == resolveDialect(r, d)
    IN  IF resolved.err # NoErr
        THEN [targets |-> <<>>, err |-> resolved.err, asked |-> resolved.asked]
        ELSE IF resolved.name # <<>> /\ ~Contains(normalizedTargets, resolved.name)
        THEN [targets |-> Append(normalizedTargets, resolved.name), err |-> NoErr,
              asked |-> resolved.asked]
        ELSE [targets |-> normalizedTargets, err |-> NoErr, asked |-> resolved.asked]

\* validate up to its loop over the targets: the target list, or the error of
\* the resolver.
validateTargets(r, d) ==
    LET normalizedTargets == dedupe(validationTargets(r.opts), <<>>)
        resolved == resolveDialect(r, d)
    IN  IF ~r.opts.validateDefault
        THEN [targets |-> normalizedTargets, err |-> NoErr, asked |-> FALSE]
        ELSE IF resolved.err # NoErr
        THEN [targets |-> <<>>, err |-> resolved.err, asked |-> resolved.asked]
        ELSE IF resolved.name # <<>> /\ ~Contains(normalizedTargets, resolved.name)
        THEN [targets |-> Append(normalizedTargets, resolved.name), err |-> NoErr,
              asked |-> resolved.asked]
        ELSE [targets |-> normalizedTargets, err |-> NoErr, asked |-> resolved.asked]

\* Faulty variant: a target is only listed as checked when it has files
checkTargetCovered(result, target, buildResult) ==
    IF hasSQL(buildResult)
    THEN [result EXCEPT !.CheckedDialects = Append(@, target)]
    ELSE [result EXCEPT
            !.AvailableLayers = @ \o buildResult.diagnostics,
            !.MissingDialects =
                (target :> reasonsFromDiagnostics(buildResult.diagnostics)) @@ @]

\* The body of validate's loop for one target, on the running result.
checkTarget(result, target, buildResult) ==
    IF hasSQL(buildResult)
    THEN [result EXCEPT !.CheckedDialects = Append(@, target)]
    ELSE [result EXCEPT
            !.CheckedDialects = Append(@, target),
            !.AvailableLayers = @ \o buildResult.diagnostics,
            !.MissingDialects =
                (target :> reasonsFromDiagnostics(buildResult.diagnostics)) @@ @]

\* Faulty variant: only the first missing dialect is written to the message
messageLinesFirst(missing, order) ==
    IF order = <<>> THEN <<>>
    ELSE <<[dialect |-> order[1], reasons |-> missing[order[1]]]>>

\* defaultDialectValidator's loop: one "- dialect: reason; reason;" line for
\* each key of MissingDialects, in the order Go's range enumerates the keys.
messageLines(missing, order) ==
    [k \in DOMAIN order |-> [dialect |-> order[k], reasons |-> missing[order[k]]]]

\* Faulty variant: the error of the validation callback is dropped
callValidatorSwallow(o, result, order) ==
    IF o.validator = "nil"
    THEN [state |-> "panicked", err |-> NoErr,
          message |-> [label |-> IF result.SourceLabel = <<>> THEN defaultSourceLabel
                                 ELSE result.SourceLabel,
                       idx |-> result.RegistrationIdx,
                       missing |-> messageLines(result.MissingDialects, order)]]
    ELSE [state |-> "returned", err |-> NoErr,
          message |-> [label |-> <<>>, idx |-> 0, missing |-> <<>>]]

\* The outcome of the validation callback: the configured one returns nil or
\* an error, defaultDialectValidator panics with its message.
callValidator(o, result, order) ==
    IF o.validator = "nil"
    THEN [state |-> "panicked", err |-> NoErr,
          message |-> [label |-> IF result.SourceLabel = <<>> THEN defaultSourceLabel
                                 ELSE result.SourceLabel,
                       idx |-> result.RegistrationIdx,
                       missing |-> messageLines(result.MissingDialects, order)]]
    ELSE [state |-> "returned",
          err |-> IF o.validator = "reject" THEN <<"EVALIDATION">> ELSE NoErr,
          message |-> [label |-> <<>>, idx |-> 0, missing |-> <<>>]]

----------------------------------------------------------------------------
(* Inputs *)

File(path, data) == [path |-> path, dir |-> FALSE, data |-> data, err |-> NoErr]

BadFile(path, err) == [path |-> path, dir |-> FALSE, data |-> <<>>, err |-> err]

Dir(path, err) == [path |-> path, dir |-> TRUE, data |-> <<>>, err |-> err]

\* No annotation: the marker of the second line is not at the line's start.
Plain == <<<<"CREATE">>, <<"--", " ", "---bun:dialect:", "mysql">>>>

\* No annotation either, other contents.
Statement == <<<<"CREATE", " ", "INDEX">>>>

ForPostgresSqlite == <<<<"---bun:dialect:", "postgres", ",", "sqlite">>>>

ForMySQL == <<<<"--">>, <<" ", "---BUN:Dialect:", " ", "MySQL", " ">>>>

ForPgSqlite3 == <<<<"---bun:dialect:", "PG">>, <<>>, <<"---bun:dialect:", ";", "sqlite3">>>>

FilePool ==
    { File(<<<<"common">>, <<"0.up", ".sql">>>>, Plain),
      File(<<<<"common">>, <<"sub">>, <<"5.UP", ".SQL">>>>, ForPgSqlite3),
      File(<<<<"common">>, <<"readme", ".md">>>>, ForMySQL),
      BadFile(<<<<"common">>, <<"7.up", ".sql">>>>, <<"ENOENT">>),
      Dir(<<<<"common">>>>, <<"EIO">>),
      File(<<<<"1.up", ".sql">>>>, ForPostgresSqlite),
      BadFile(<<<<"6.up", ".sql">>>>, <<"EIO">>),
      File(<<<<"postgres">>, <<"2.up", ".sql">>>>, Plain),
      Dir(<<<<"postgres">>, <<"old">>>>, <<"EIO">>),
      File(<<<<"pg">>, <<"2.up", ".sql">>>>, ForPostgresSqlite),
      File(<<<<"sqlite">>, <<"2.up", ".sql">>>>, ForMySQL) }

\* Nothing is listed below a directory that cannot be listed.
WellFormed(es) ==
    \A i, j \in DOMAIN es :
        es[i].dir /\ es[i].err # NoErr => ~IsUnder(es[i].path, es[j].path)

Injective(f) == \A i, j \in DOMAIN f : f[i] = f[j] => i = j

\* The sequences that list each element of S once.
Perms(S) == {f \in [1..Cardinality(S) -> S] : Injective(f)}

\* One file in each layer: common/0.up.sql, 1.up.sql, postgres/2.up.sql.
Fixture ==
    { File(<<<<"common">>, <<"0.up", ".sql">>>>, Plain),
      File(<<<<"1.up", ".sql">>>>, ForPostgresSqlite),
      File(<<<<"postgres">>, <<"2.up", ".sql">>>>, Plain) }

\* The trees of at most MaxFiles entries of the pool and the fixture, each in
\* every enumeration order.
\* The tree of the documented scenario: a file in common/, one at the root
\* and one in the directory of each of two dialects.
Scenario ==
    <<File(<<<<"common">>, <<"0.up", ".sql">>>>, Plain),
      File(<<<<"1.up", ".sql">>>>, Plain),
      File(<<<<"postgres">>, <<"2.up", ".sql">>>>, Plain),
      File(<<<<"sqlite">>, <<"2.up", ".sql">>>>, Statement)>>

\* A root whose only file is annotated for mysql.
Legacy == <<File(<<<<"3.up", ".sql">>>>, ForMySQL)>>

Trees ==
    {[sub |-> m, entries |-> es] :
        m \in {"lazy", "checks"},
        es \in {p \in UNION {Perms(S) : S \in {X \in SUBSET FilePool :
                                                   Cardinality(X) <= MaxFiles}} :
                    WellFormed(p)} \cup Perms(Fixture) \cup {Scenario, Legacy}}

OnlySqlite == <<File(<<<<"sqlite">>, <<"2.up", ".sql">>>>, Plain)>>

Broken ==
    <<File(<<<<"common">>, <<"0.up", ".sql">>>>, Plain),
      BadFile(<<<<"6.up", ".sql">>>>, <<"EIO">>)>>

\* The fixture, in the order a sorted directory listing gives.
Listed ==
    <<File(<<<<"1.up", ".sql">>>>, ForPostgresSqlite),
      File(<<<<"common">>, <<"0.up", ".sql">>>>, Plain),
      File(<<<<"postgres">>, <<"2.up", ".sql">>>>, Plain)>>

RegisteredTrees ==
    {[sub |-> "lazy", entries |-> es] : es \in {<<>>, Scenario, OnlySqlite, Broken, Listed}}

NoDB == [present |-> FALSE, name |-> <<>>]

DBs == {NoDB} \cup {[present |-> TRUE, name |-> n] : n \in {<<"pg">>, <<"sqlite">>, <<>>}}

RawNames == {<<"pg">>, <<" ", "SQLite3", " ">>, <<"mysql">>, <<" ">>}

Overrides ==
    { <<[alias |-> <<"Maria">>, canonical |-> <<"mysql">>]>>,
      <<[alias |-> <<"postgres">>, canonical |-> <<"pgx">>]>> }

Resolvers ==
    {[set |-> TRUE, name |-> n, err |-> NoErr] : n \in {<<"PG">>, <<"\t">>, <<"oracle">>}}
    \cup {[set |-> TRUE, name |-> <<>>, err |-> <<"ERESOLVER">>]}

TargetLists ==
    { <<>>, <<<<" ">>>>, <<<<"postgres">>>>, <<<<"pg">>, <<"sqlite">>, <<"Postgres">>>>,
      <<<<" ">>, <<"mysql">>>> }

Validators == {"accept", "reject"}

Labels == {<<" ", "app", " ">>, <<" ">>}

\* validate's idx argument: the place of the registration among the others.
RegistrationIdxs == {0, 1}

----------------------------------------------------------------------------
(* Query hooks: the client options and applyQueryHooks *)

defaultQueryHookPriority == 0
defaultBundebugPriority == 10
defaultBunotelPriority == 20

\* The zero value of clientOptions.
defaultClientOptions ==
    [hookOrder |-> 0, hooks |-> <<>>,
     bundebugEnabled |-> FALSE, bundebugPriority |-> 0, bundebugOrder |-> 0,
     bunotelEnabled |-> FALSE, bunotelPriority |-> 0, bunotelOrder |-> 0]

RECURSIVE WithQueryHooksPriority(_, _, _)
WithQueryHooksPriority(o, priority, hooks) ==
    IF hooks = <<>> THEN o
    ELSE WithQueryHooksPriority(
             [o EXCEPT !.hookOrder = @ + 1,
                       !.hooks = Append(@, [hook |-> Head(hooks), priority |-> priority,
                                            order |-> o.hookOrder + 1])],
             priority, Tail(hooks))

WithQueryHooks(o, hooks) == WithQueryHooksPriority(o, defaultQueryHookPriority, hooks)

WithBundebug(o) ==
    [o EXCEPT !.hookOrder = @ + 1,
              !.bundebugEnabled = TRUE,
              !.bundebugPriority = defaultBundebugPriority,
              !.bundebugOrder = o.hookOrder + 1]

WithBunotel(o) ==
    [o EXCEPT !.hookOrder = @ + 1,
              !.bunotelEnabled = TRUE,
              !.bunotelPriority = defaultBunotelPriority,
              !.bunotelOrder = o.hookOrder + 1]

\* nil is the empty sequence; the hook itself goes by its name.
bundebugHook(c) == IF c.nil THEN <<>> ELSE <<"bundebug">>

bunotelHook(c) == IF c.nil \/ c.otelIdentifier = <<>> THEN <<>> ELSE <<"bunotel">>

\* Faulty variant: the priorities are not looked at
hookLessByOrder(a, b) == a.order < b.order

\* The less function applyQueryHooks gives to sort.SliceStable.
hookLess(a, b) ==
    IF a.priority = b.priority THEN a.order < b.order ELSE a.priority < b.priority

RECURSIVE insertStable(_, _)
\* e goes before the first entry it is less than, after all the others.
insertStable(sorted, e) ==
    IF sorted = <<>> THEN <<e>>
    ELSE IF hookLess(e, Head(sorted)) THEN <<e>> \o sorted
    ELSE <<Head(sorted)>> \o insertStable(Tail(sorted), e)

RECURSIVE sortStable(_, _)
sortStable(entries, sorted) ==
    IF entries = <<>> THEN sorted
    ELSE sortStable(Tail(entries), insertStable(sorted, Head(entries)))

\* The query hooks of the model go by a name.  A, B, C, bundebug and bunotel
\* are pointers to hooks of a type without QueryHookKey, K1 and K2 are two
\* pointers to keyedHook values whose QueryHookKey is "dup", V is a hook value
\* that is no pointer and has no key, and "nil" is the nil hook.
KeyedHooks == {"K1", "K2"}

ValueHooks == {"V"}

\* fmt's %T of the hook.
hookType(hook) ==
    CASE hook \in KeyedHooks -> "*keyedHook"
      [] hook \in ValueHooks -> "valueHook"
      [] hook = "bundebug" -> "*bundebug.QueryHook"
      [] hook = "bunotel" -> "*bunotel.QueryHook"
      [] OTHER -> "*orderHook"

\* keyedHook.QueryHookKey()
QueryHookKey(hook) == <<"dup">>

ErrQueryHookNil == <<"query hook is nil">>

validateQueryHook(hook) == IF hook = "nil" THEN ErrQueryHookNil ELSE NoErr

\* The key is the type and the trimmed QueryHookKey or, for a pointer, the
\* type and the address (which the hook's name stands for).
queryHookKey(hook) ==
    IF hook = "nil" THEN [key |-> <<>>, ok |-> FALSE]
    ELSE IF hook \in KeyedHooks /\ TrimSpace(QueryHookKey(hook)) # <<>>
    THEN [key |-> <<hookType(hook)>> \o TrimSpace(QueryHookKey(hook)), ok |-> TRUE]
    ELSE IF hook \notin ValueHooks
    THEN [key |-> <<hookType(hook), hook>>, ok |-> TRUE]
    ELSE [key |-> <<>>, ok |-> FALSE]

RECURSIVE addQueryHooks(_, _, _)
\* registerQueryHooks' loop over the valid hooks.  entry holds the hooks of the
\* db and the keys of its hookRegistryEntry.
addQueryHooks(entry, localKeys, hooks) ==
    IF hooks = <<>> THEN entry
    ELSE IF ~queryHookKey(Head(hooks)).ok
    THEN addQueryHooks([entry EXCEPT !.hooks = Append(@, Head(hooks))],
                       localKeys, Tail(hooks))
    ELSE IF queryHookKey(Head(hooks)).key \in localKeys
    THEN addQueryHooks(entry, localKeys, Tail(hooks))
    ELSE IF queryHookKey(Head(hooks)).key \in entry.keys
    THEN addQueryHooks(entry, localKeys, Tail(hooks))
    ELSE addQueryHooks([hooks |-> Append(entry.hooks, Head(hooks)),
                        keys |-> entry.keys \cup {queryHookKey(Head(hooks)).key}],
                       localKeys \cup {queryHookKey(Head(hooks)).key}, Tail(hooks))

\* Faulty variant: the keys registered by earlier calls are not looked at
registerQueryHooksLocal(entry, hooks) ==
    addQueryHooks([entry EXCEPT !.keys = {}], {},
                  SelectSeq(hooks, LAMBDA hook : validateQueryHook(hook) = NoErr))

\* The invalid hooks go to the error handler, which by default logs them.
registerQueryHooks(entry, hooks) ==
    addQueryHooks(entry, {},
                  SelectSeq(hooks, LAMBDA hook : validateQueryHook(hook) = NoErr))

hookEntries(c, o) ==
    o.hooks
    \o (IF o.bundebugEnabled /\ bundebugHook(c) # <<>>
        THEN <<[hook |-> bundebugHook(c)[1], priority |-> o.bundebugPriority,
                order |-> o.bundebugOrder]>>
        ELSE <<>>)
    \o (IF o.bunotelEnabled /\ bunotelHook(c) # <<>>
        THEN <<[hook |-> bunotelHook(c)[1], priority |-> o.bunotelPriority,
                order |-> o.bunotelOrder]>>
        ELSE <<>>)

hooksOf(entries) == [k \in DOMAIN entries |-> entries[k].hook]

\* The query hooks of the db, and the keys registered for it, after
\* applyQueryHooks(db, cfg, opts).
applyQueryHooks(entry, c, o) ==
    IF hookEntries(c, o) = <<>> THEN entry
    ELSE registerQueryHooks(entry, hooksOf(sortStable(hookEntries(c, o), <<>>)))

CustomHooks == {"A", "B", "C"}

Priorities == {5, 10}

\* A Config with an OpenTelemetry identifier, and one without.
Traced == [nil |-> FALSE, otelIdentifier |-> <<"otel-service">>]

Untraced == [nil |-> FALSE, otelIdentifier |-> <<>>]

----------------------------------------------------------------------------
(* State *)

NoResult == [dialect |-> <<>>, fileSystems |-> <<>>, diagnostics |-> <<>>, err |-> NoErr]

NoValidation ==
    [targets |-> <<>>, i |-> 0,
     result |-> [SourceLabel |-> <<>>, RegistrationIdx |-> 0, CheckedDialects |-> <<>>,
                 MissingDialects |-> <<>>, DialectAliases |-> <<>>,
                 AvailableLayers |-> <<>>, RequestedTargets |-> <<>>],
     ret |-> [state |-> "pending", err |-> NoErr,
              message |-> [label |-> <<>>, idx |-> 0, missing |-> <<>>]]]

Returned(err) ==
    [state |-> "returned", err |-> err,
     message |-> [label |-> <<>>, idx |-> 0, missing |-> <<>>]]

NoCalls == [resolver |-> 0, builds |-> <<>>, validator |-> 0]

registration == [root |-> tree, opts |-> opts]

\* The orders in which Go's range may enumerate the aliases of a dialect (the
\* key that is the canonical name itself is left out: candidateDirectories adds
\* it first, whatever its place).
IterOrders(o, name) ==
    Perms({k \in DOMAIN o.aliases : o.aliases[k] = normalize(o, name)
                                      /\ k # normalize(o, name)})

\* NewMigrations: no filesystem registered, no goroutine calling yet.
NewMigrations ==
    /\ Files = <<>>
    /\ mx = 0
    /\ calling = [g \in 1..MaxGoroutines |-> [at |-> "idle", migrations |-> <<>>,
                                              slice |-> <<>>]]

\* No client option applied yet.
NewClient(cfgs) ==
    /\ cfg \in cfgs
    /\ copts = defaultClientOptions
    /\ client = [at |-> "options", applied |-> <<>>, hooks |-> <<>>, keys |-> {},
                 given |-> <<>>]

Start(trees, dbs) ==
    /\ NewMigrations
    /\ NewClient({Traced})
    /\ tree \in trees
    /\ db \in dbs
    /\ opts = defaultDialectOptions
    /\ nopts = 0
    /\ pc = "config"
    /\ op = "none"
    /\ res = NoResult
    /\ val = NoValidation
    /\ calls = NoCalls
    /\ tables = [place \in {"defaults", "own", "other"} |->
                   IF place = "defaults" THEN defaultDialectAliases
                   ELSE defaultDialectOptions.aliases]

Init == Start(RegisteredTrees, DBs)

InitBuild == Start(Trees, {NoDB})

----------------------------------------------------------------------------
(* Registration: the functional options, applied one after another *)

Configure(o) ==
    /\ pc = "config"
    /\ nopts < MaxOptions
    /\ opts' = o
    /\ tables' = [tables EXCEPT ![aliasesOf("own")] = o.aliases]
    /\ nopts' = nopts + 1
    /\ UNCHANGED <<tree, db, pc, op, res, val, calls, migrationVars, clientVars>>

OptDialectName == \E name \in RawNames : Configure(WithDialectName(opts, name))

OptDefaultDialect == \E name \in RawNames : Configure(WithDefaultDialect(opts, name))

OptDialectAliases == \E ov \in Overrides : Configure(WithDialectAliases(opts, ov))

OptDialectResolver == \E r \in Resolvers : Configure(WithDialectResolver(opts, r))

OptValidationTargets == \E ts \in TargetLists : Configure(WithValidationTargets(opts, ts))

OptDialectValidator == \E fn \in Validators : Configure(WithDialectValidator(opts, fn))

OptDialectSourceLabel == \E label \in Labels : Configure(WithDialectSourceLabel(opts, label))

----------------------------------------------------------------------------
(* Operations *)

Asked(c, asked) == [c EXCEPT !.resolver = IF asked THEN @ + 1 ELSE @]

\* buildFileSystems after resolveDialect: its error, or the build for the name.
Built(rd) ==
    IF rd.err # NoErr
    THEN /\ res' = [NoResult EXCEPT !.err = rd.err]
         /\ calls' = Asked(calls, rd.asked)
    ELSE \E iter \in IterOrders(opts, rd.name) :
         /\ res' = buildForDialect(registration, rd.name, iter)
         /\ calls' = [Asked(calls, rd.asked) EXCEPT !.builds = Append(@, res')]

BuildFileSystems ==
    /\ pc = "config"
    /\ Built(resolveDialect(registration, db))
    /\ pc' = "done"
    /\ op' = "build"
    /\ UNCHANGED <<tree, db, opts, nopts, val, tables, migrationVars, clientVars>>

Begun(vt, idx) ==
    /\ calls' = Asked(calls, vt.asked)
    /\ IF vt.err # NoErr
       THEN /\ val' = [val EXCEPT !.ret = Returned(vt.err)]
            /\ pc' = "done"
       ELSE IF Len(vt.targets) = 0
       THEN /\ val' = [val EXCEPT !.ret = Returned(NoErr)]
            /\ pc' = "done"
       ELSE /\ val' = [val EXCEPT
                         !.targets = vt.targets,
                         !.i = 1,
                         !.result = [@ EXCEPT
                             !.SourceLabel = opts.sourceLabel,
                             !.RegistrationIdx = idx,
                             !.DialectAliases = opts.aliases,
                             !.RequestedTargets = vt.targets]]
            /\ pc' = "validating"

\* validate, lines 347-387: the targets; returns at once on a resolver error
\* or when there is no target.
ValidateBegin ==
    /\ pc = "config"
    /\ op' = "validate"
    /\ \E idx \in RegistrationIdxs : Begun(validateTargets(registration, db), idx)
    /\ UNCHANGED <<tree, db, opts, nopts, res, tables, migrationVars, clientVars>>

Checked(target, buildResult) ==
    /\ calls' = [calls EXCEPT !.builds = Append(@, buildResult)]
    /\ IF buildResult.err # NoErr
       THEN /\ val' = [val EXCEPT !.ret = Returned(buildResult.err)]
            /\ pc' = "done"
       ELSE /\ val' = [val EXCEPT
                         !.i = @ + 1,
                         !.result = checkTarget(@, target, buildResult)]
            /\ pc' = "validating"

\* validate, lines 389-400: one turn of the loop over the targets.
ValidateTarget ==
    /\ pc = "validating"
    /\ val.i <= Len(val.targets)
    /\ \E iter \in IterOrders(opts, val.targets[val.i]) :
          Checked(val.targets[val.i],
                  buildForDialect(registration, val.targets[val.i], iter))
    /\ UNCHANGED <<tree, db, opts, nopts, op, res, tables, migrationVars, clientVars>>

\* validate, lines 402-414: after the loop, report what is missing.
ValidateReport ==
    /\ pc = "validating"
    /\ val.i > Len(val.targets)
    /\ IF DOMAIN val.result.MissingDialects = {}
       THEN /\ val' = [val EXCEPT !.ret = Returned(NoErr)]
            /\ calls' = calls
       ELSE /\ \E order \in Perms(DOMAIN val.result.MissingDialects) :
                  val' = [val EXCEPT !.ret = callValidator(opts, val.result, order)]
            /\ calls' = [calls EXCEPT !.validator = @ + 1]
    /\ pc' = "done"
    /\ UNCHANGED <<tree, db, opts, nopts, op, res, tables, migrationVars, clientVars>>

Next ==
    \/ OptDialectName
    \/ OptDefaultDialect
    \/ OptDialectAliases
    \/ OptDialectResolver
    \/ OptValidationTargets
    \/ OptDialectValidator
    \/ OptDialectSourceLabel
    \/ BuildFileSystems
    \/ ValidateBegin
    \/ ValidateTarget
    \/ ValidateReport

Spec == Init /\ [][Next]_vars

NextBuild ==
    \/ OptDialectName
    \/ OptDialectAliases
    \/ BuildFileSystems

SpecBuild == InitBuild /\ [][NextBuild]_vars

----------------------------------------------------------------------------
(* Migrations.RegisterSQLMigrations, called from several goroutines *)

\* The filesystems goroutine g may pass: one, or two.
Arguments(g) == {<<g>>, <<g, g + MaxGoroutines>>}

\* Faulty variant: the mutex does not keep a second goroutine out
lockFreely(holder) == TRUE

\* m.mx.Lock() returns only while no goroutine holds the mutex.
lockable(holder) == holder = 0

Moved(g, at) == calling' = [calling EXCEPT ![g].at = at]

\* A goroutine calls RegisterSQLMigrations(migrations...).
Call(g) ==
    /\ calling[g].at = "idle"
    /\ \E migrations \in Arguments(g) :
          calling' = [calling EXCEPT ![g].at = "called", ![g].migrations = migrations]
    /\ UNCHANGED <<Files, mx, dialectVars, clientVars>>

\* m.mx.Lock()
Lock(g) ==
    /\ calling[g].at = "called"
    /\ lockable(mx)
    /\ mx' = g
    /\ Moved(g, "locked")
    /\ UNCHANGED <<Files, dialectVars, clientVars>>

\* append(m.Files, migrations...) reads the slice m.Files ...
ReadFiles(g) ==
    /\ calling[g].at = "locked"
    /\ calling' = [calling EXCEPT ![g].at = "read", ![g].slice = Files]
    /\ UNCHANGED <<Files, mx, dialectVars, clientVars>>

\* ... and m.Files = stores the slice with the arguments appended.
StoreFiles(g) ==
    /\ calling[g].at = "read"
    /\ Files' = calling[g].slice \o calling[g].migrations
    /\ Moved(g, "stored")
    /\ UNCHANGED <<mx, dialectVars, clientVars>>

\* m.mx.Unlock(); return m
Unlock(g) ==
    /\ calling[g].at = "stored"
    /\ mx' = 0
    /\ Moved(g, "returned")
    /\ UNCHANGED <<Files, dialectVars, clientVars>>

InitRegister == Start({[sub |-> "lazy", entries |-> <<>>]}, {NoDB})

NextRegister ==
    \E g \in 1..MaxGoroutines :
        \/ Call(g)
        \/ Lock(g)
        \/ ReadFiles(g)
        \/ StoreFiles(g)
        \/ Unlock(g)

SpecRegister == InitRegister /\ [][NextRegister]_vars

----------------------------------------------------------------------------
(* The client options, applied one after another, then applyQueryHooks *)

\* Each custom hook is registered by at most one option.
Fresh(hook) == \A k \in DOMAIN copts.hooks : copts.hooks[k].hook # hook

ClientOption(name, priority, hook, o) ==
    /\ client.at = "options"
    /\ Len(client.applied) < MaxClientOptions
    /\ copts' = o
    /\ client' = [client EXCEPT
                     !.applied = Append(@, [name |-> name, priority |-> priority,
                                            hook |-> hook])]
    /\ UNCHANGED <<cfg, dialectVars, migrationVars>>

OptQueryHooks ==
    \E hook \in CustomHooks :
        /\ Fresh(hook)
        /\ ClientOption("WithQueryHooks", defaultQueryHookPriority, hook,
                        WithQueryHooks(copts, <<hook>>))

OptQueryHooksPriority ==
    \E hook \in CustomHooks, priority \in Priorities :
        /\ Fresh(hook)
        /\ ClientOption("WithQueryHooksPriority", priority, hook,
                        WithQueryHooksPriority(copts, priority, <<hook>>))

OptBundebug ==
    ClientOption("WithBundebug", defaultBundebugPriority, "bundebug", WithBundebug(copts))

OptBunotel ==
    ClientOption("WithBunotel", defaultBunotelPriority, "bunotel", WithBunotel(copts))

\* The hooks of the db and the keys of its entry in hookRegistry.
registryEntry == [hooks |-> client.hooks, keys |-> client.keys]

\* The client after a call that handed hooks to registerQueryHooks and left
\* the entry of its db as given.
Handed(at, hooks, entry) ==
    client' = [client EXCEPT !.at = at, !.hooks = entry.hooks, !.keys = entry.keys,
                             !.given = IF hooks = <<>> THEN @ ELSE Append(@, hooks)]

ApplyQueryHooks ==
    /\ client.at = "options"
    /\ Handed("ready", hooksOf(sortStable(hookEntries(cfg, copts), <<>>)),
                  applyQueryHooks(registryEntry, cfg, copts))
    /\ UNCHANGED <<copts, cfg, dialectVars, migrationVars>>

InitHooks ==
    /\ NewClient({Traced, Untraced})
    /\ NewMigrations
    /\ tree = [sub |-> "lazy", entries |-> <<>>]
    /\ db = NoDB
    /\ opts = defaultDialectOptions
    /\ nopts = 0
    /\ pc = "config"
    /\ op = "none"
    /\ res = NoResult
    /\ val = NoValidation
    /\ calls = NoCalls
    /\ tables = [place \in {"defaults", "own", "other"} |->
                   IF place = "defaults" THEN defaultDialectAliases
                   ELSE defaultDialectOptions.aliases]

NextHooks ==
    \/ OptQueryHooks
    \/ OptQueryHooksPriority
    \/ OptBundebug
    \/ OptBunotel
    \/ ApplyQueryHooks

SpecHooks == InitHooks /\ [][NextHooks]_vars

----------------------------------------------------------------------------
(* Hooks handed over more than once: WithQueryHooks with a list of hooks,    *)
(* applyQueryHooks, and later calls of registerQueryHooks for the same db    *)

HookPool == {"A", "K1", "K2", "V", "nil"}

\* The lists of one or two hooks.
HookLists == UNION {[1..n -> HookPool] : n \in 1..2}

\* The number of hooks the calls so far have handed to registerQueryHooks.
RECURSIVE Handled(_)
Handled(given) == IF given = <<>> THEN 0 ELSE Len(Head(given)) + Handled(Tail(given))

OptQueryHookList ==
    \E hooks \in HookLists :
        /\ Len(copts.hooks) + Len(hooks) <= MaxHooks
        /\ ClientOption("WithQueryHooks", defaultQueryHookPriority, hooks,
                        WithQueryHooks(copts, hooks))

\* A later call of registerQueryHooks(db, hooks...) for the db of the client.
RegisterQueryHooks ==
    /\ client.at = "ready"
    /\ \E hooks \in HookLists :
          /\ Handled(client.given) + Len(hooks) <= MaxHooks
          /\ Handed("ready", hooks, registerQueryHooks(registryEntry, hooks))
    /\ UNCHANGED <<copts, cfg, dialectVars, migrationVars>>

InitDedupe == InitRegister

NextDedupe ==
    \/ OptQueryHookList
    \/ ApplyQueryHooks
    \/ RegisterQueryHooks

SpecDedupe == InitDedupe /\ [][NextDedupe]_vars

----------------------------------------------------------------------------
(* What the source tree holds, read off tree.entries as sets *)

BuildDone == op = "build" /\ pc = "done"

\* buildFileSystems resolved a dialect and ran build for it.
BuildRan == BuildDone /\ calls.builds # <<>>

Entry(i) == tree.entries[i]

\* The entries a walk of directory `at` comes to.
Visited(at, recursive) ==
    {i \in DOMAIN tree.entries :
        /\ IsUnder(at, Entry(i).path)
        /\ recursive \/ Len(Entry(i).path) = Len(at) + 1}

SQLFiles(at, recursive) ==
    {i \in Visited(at, recursive) : ~Entry(i).dir /\ HasSQLSuffix(Entry(i).path)}

\* The entries whose listing or reading the walk asks for and that fail.
Failing(at, recursive) ==
    {i \in Visited(at, recursive) :
        /\ Entry(i).err # NoErr
        /\ IF Entry(i).dir THEN recursive ELSE HasSQLSuffix(Entry(i).path)}

\* The first error a walk of `at` meets; nil when it meets none.
FirstError(at, recursive) ==
    IF ~DirExists(tree, at) THEN <<"ENOENT">>
    ELSE IF \E i \in DOMAIN tree.entries :
               Entry(i).dir /\ Entry(i).path = at /\ Entry(i).err # NoErr
    THEN Entry(CHOOSE i \in DOMAIN tree.entries :
                  Entry(i).dir /\ Entry(i).path = at /\ Entry(i).err # NoErr).err
    ELSE IF Failing(at, recursive) = {} THEN NoErr
    ELSE Entry(CHOOSE i \in Failing(at, recursive) :
                  \A j \in Failing(at, recursive) : i <= j).err

\* A genuine filesystem error: any but "does not exist".
HardError(at, recursive) ==
    FirstError(at, recursive) # NoErr /\ ~IsNotExist(FirstError(at, recursive))

WalkCompletes(at, recursive) == FirstError(at, recursive) = NoErr

\* The set of dialects a file's annotation lines name.
Declared(data) ==
    {extractDialects(opts, data)[k] : k \in DOMAIN extractDialects(opts, data)}

Applies(data, dialect) == Declared(data) = {} \/ dialect \in Declared(data)

Applicable(at, recursive, dialect) ==
    {i \in SQLFiles(at, recursive) : Applies(Entry(i).data, dialect)}

\* The files a completed walk of `at` must give for the dialect, by path.
Expected(at, recursive, dialect) ==
    IF ~WalkCompletes(at, recursive) THEN <<>>
    ELSE [p \in {RelPath(at, Entry(i).path) : i \in Applicable(at, recursive, dialect)} |->
            Entry(CHOOSE i \in Applicable(at, recursive, dialect) :
                     RelPath(at, Entry(i).path) = p).data]

\* The directory a diagnostic's layer was collected from.
LayerDir(d) ==
    IF d.Layer = layerCommon THEN <<commonDirName>>
    ELSE IF d.Layer = layerRoot THEN <<>>
    ELSE <<d.Name>>

Recursive(d) == d.Layer # layerRoot

ExpectedOf(r, i) ==
    Expected(LayerDir(r.diagnostics[i]), Recursive(r.diagnostics[i]), r.dialect)

LayersOf(r) == [i \in DOMAIN r.diagnostics |-> r.diagnostics[i].Layer]

----------------------------------------------------------------------------
(* C1: a successful build returns the diagnostics in the order common, root,  *)
(* dialect-specific, and the virtual filesystems of the layers that have      *)
(* files in that same order, whatever the order in which the source           *)
(* filesystem enumerates its entries.                                         *)

LayerOrder_C1 ==
    (BuildRan /\ res.err = NoErr) =>
        /\ LayersOf(res) = <<layerCommon, layerRoot, layerDialect>>
        /\ res.fileSystems =
             SelectSeq(<<ExpectedOf(res, 1), ExpectedOf(res, 2), ExpectedOf(res, 3)>>,
                       LAMBDA f : DOMAIN f # {})

\* All three layers have files, and the tree enumerates the dialect's file
\* first and the common file last.
Witness_C1 ==
    /\ BuildRan /\ res.err = NoErr
    /\ Len(res.fileSystems) = 3
    /\ Len(tree.entries) = 3
    /\ tree.entries[1].path[1] = <<"postgres">>
    /\ tree.entries[3].path[1] = <<"common">>

----------------------------------------------------------------------------
(* C2: in every layer that is walked, a SQL file is in the build for dialect  *)
(* D exactly when the dialects its annotation lines name are none or include  *)
(* D.  With the built-in alias table: a file without annotation is in every   *)
(* build, a file annotated postgres,sqlite is in the builds for postgres and  *)
(* sqlite and in no other.                                                    *)

\* The walk of the layer ran to its end.
Walked(d) ==
    \/ d.Files > 0
    \/ d.Reason.msg \in {"no SQL files found in", "SQL files exist but none match dialect"}

\* The virtual filesystem of the i-th diagnostic's layer (empty when it has none).
FsOf(r, i) ==
    LET k == Cardinality({j \in 1..i : r.diagnostics[j].Files > 0})
    IN  IF r.diagnostics[i].Files > 0 /\ k <= Len(r.fileSystems)
        THEN r.fileSystems[k]
        ELSE <<>>

InLayer(r, i, k) ==
    RelPath(LayerDir(r.diagnostics[i]), Entry(k).path) \in DOMAIN FsOf(r, i)

Included_C2 ==
    BuildRan =>
        \A i \in DOMAIN res.diagnostics :
            Walked(res.diagnostics[i]) =>
                \A k \in SQLFiles(LayerDir(res.diagnostics[i]), Recursive(res.diagnostics[i])) :
                    /\ InLayer(res, i, k) <=> Applies(Entry(k).data, res.dialect)
                    /\ opts.aliases = defaultDialectAliases =>
                         /\ Entry(k).data = Plain => InLayer(res, i, k)
                         /\ Entry(k).data = ForPostgresSqlite =>
                              (InLayer(res, i, k)
                                  <=> res.dialect \in {<<"postgres">>, <<"sqlite">>})

\* A build for sqlite that takes the root file annotated postgres,sqlite and
\* leaves out the file of sqlite/ that is annotated mysql.
Witness_C2 ==
    /\ BuildRan /\ res.err = NoErr
    /\ res.dialect = <<"sqlite">>
    /\ res.diagnostics[2].Files = 1
    /\ res.diagnostics[3].Reason.msg = "SQL files exist but none match dialect"

----------------------------------------------------------------------------
(* C3: a build requested under an alias of a dialect returns what the build   *)
(* requested under the dialect's canonical name returns.                      *)

\* What buildFileSystems may return when the registration names the dialect.
BuildsFor(name) ==
    LET r == [root |-> tree, opts |-> WithDialectName(opts, name)]
    IN  {buildForDialect(r, resolveDialect(r, db).name, iter) :
            iter \in IterOrders(r.opts, resolveDialect(r, db).name)}

IsCanonical(c) == c \in DOMAIN opts.aliases /\ opts.aliases[c] = c

SameBuilds(names, builds) == \A a \in names : BuildsFor(a) = builds

AliasBuild_C3 ==
    (BuildRan /\ opts.explicitDialect # <<>> /\ IsCanonical(res.dialect)) =>
        /\ res \in BuildsFor(res.dialect)
        /\ SameBuilds({a \in DOMAIN opts.aliases : opts.aliases[a] = res.dialect},
                      BuildsFor(res.dialect))

\* The registration asked for "pg" (no option names "postgres" itself), the
\* build ran for postgres and holds the root file annotated postgres,sqlite.
Witness_C3 ==
    /\ BuildRan /\ res.err = NoErr
    /\ opts.explicitDialect = <<"postgres">>
    /\ opts.aliases = defaultDialectAliases
    /\ res.dialect = <<"postgres">>
    /\ \E k \in DOMAIN tree.entries :
          Entry(k).data = ForPostgresSqlite /\ Len(Entry(k).path) = 1
              /\ InLayer(res, 2, k)

----------------------------------------------------------------------------
(* C4: a layer whose directory does not exist, or that holds no SQL file for  *)
(* the dialect, is no error: it gives no virtual filesystem and a diagnostic  *)
(* with file count 0 and a reason, and the layers after it are collected.     *)

MissingOrEmpty(r, i) ==
    /\ ~HardError(LayerDir(r.diagnostics[i]), Recursive(r.diagnostics[i]))
    /\ \/ ~DirExists(tree, LayerDir(r.diagnostics[i]))
       \/ Applicable(LayerDir(r.diagnostics[i]), Recursive(r.diagnostics[i]),
                     r.dialect) = {}

WithFiles(r, n) == {j \in 1..n : r.diagnostics[j].Files > 0}

NotFoundIsNoError_C4 ==
    BuildRan =>
        \A i \in DOMAIN res.diagnostics :
            MissingOrEmpty(res, i) =>
                /\ res.diagnostics[i].Files = 0
                /\ res.diagnostics[i].Reason # NoReason
                /\ Len(res.fileSystems) <= Cardinality(WithFiles(res, Len(res.diagnostics)))
                /\ \A k \in DOMAIN res.fileSystems : DOMAIN res.fileSystems[k] # {}
                /\ i < 3 => Len(res.diagnostics) > i
                /\ i = Len(res.diagnostics) => res.err = NoErr

\* No common directory and no directory of the dialect (on a filesystem whose
\* Sub reports the missing directory), and a root layer with a file.
Witness_C4 ==
    /\ BuildRan /\ res.err = NoErr
    /\ tree.sub = "checks"
    /\ res.diagnostics[1].Reason.msg = "directory not found"
    /\ res.diagnostics[2].Files > 0
    /\ res.diagnostics[3].Reason.msg = "no dialect-specific directory found (searched:"

----------------------------------------------------------------------------
(* C5: a filesystem error other than "does not exist" while a layer is walked *)
(* or read makes build return that error at once: the diagnostics end with    *)
(* the failing layer's, no later layer is attempted and the result holds no   *)
(* filesystem of the failing or a later layer.  Nothing else fails a build.   *)

Fails(r, i) == HardError(LayerDir(r.diagnostics[i]), Recursive(r.diagnostics[i]))

FailFast_C5 ==
    BuildRan =>
        /\ LayersOf(res) = SubSeq(<<layerCommon, layerRoot, layerDialect>>, 1,
                                  Len(res.diagnostics))
        /\ Len(res.diagnostics) >= 1
        /\ res.err = NoErr => Len(res.diagnostics) = 3
        /\ res.err # NoErr <=> \E i \in DOMAIN res.diagnostics : Fails(res, i)
        /\ \A i \in DOMAIN res.diagnostics :
              Fails(res, i) =>
                  /\ i = Len(res.diagnostics)
                  /\ res.err = FirstError(LayerDir(res.diagnostics[i]),
                                          Recursive(res.diagnostics[i]))
                  /\ res.diagnostics[i].Reason = ErrText(res.err)
                  /\ res.diagnostics[i].Files = 0
                  /\ Len(res.fileSystems) = Cardinality(WithFiles(res, i - 1))

\* Reading a root file fails with EIO: the build stops after the root layer,
\* although the dialect's directory holds a file for it.
Witness_C5 ==
    /\ BuildRan
    /\ res.err = <<"EIO">>
    /\ Len(res.diagnostics) = 2
    /\ res.diagnostics[2].Layer = layerRoot
    /\ Applicable(<<res.dialect>>, TRUE, res.dialect) # {}

----------------------------------------------------------------------------
(* What resolution has to go on, read off the options and the connection *)

FromResolver == IF opts.resolver.set THEN normalize(opts, opts.resolver.name) ELSE <<>>
FromDB == IF db.present THEN normalize(opts, db.name) ELSE <<>>

FirstAvailable(names) ==
    names[CHOOSE i \in DOMAIN names :
            names[i] # <<>> /\ \A j \in 1..(i - 1) : names[j] = <<>>]

\* The resolver callback is reached and returns an error.
ResolverFailed ==
    opts.explicitDialect = <<>> /\ opts.resolver.set /\ opts.resolver.err # NoErr

\* The resolver callback is reached and returns a name.
ResolverAnswered ==
    opts.explicitDialect = <<>> /\ opts.resolver.set /\ opts.resolver.err = NoErr

ValidateResolved == op = "validate" /\ opts.validateDefault

(* C6: resolveDialect returns the first available of the explicit dialect,    *)
(* the normalized non-empty name of the resolver callback, the normalized     *)
(* name of the live connection, the default dialect and "postgres"; with an   *)
(* explicit dialect the resolver callback is not invoked.                     *)
ResolveOrder_C6 ==
    LET expected == FirstAvailable(<<opts.explicitDialect, FromResolver, FromDB,
                                     opts.defaultDialect, defaultDialectName>>)
    IN  /\ (BuildDone /\ ~ResolverFailed) => res.dialect = expected
        /\ (ValidateResolved /\ ~ResolverFailed) => val.targets = <<expected>>
        /\ opts.explicitDialect # <<>> => calls.resolver = 0

\* The callback answers with blanks, so the connection's "pg" decides although
\* a default dialect is configured.
Witness_C6 ==
    /\ BuildDone
    /\ ResolverAnswered /\ FromResolver = <<>>
    /\ db.present /\ db.name = <<"pg">>
    /\ opts.defaultDialect = <<"mysql">>
    /\ res.dialect = <<"postgres">>
    /\ calls.resolver = 1

(* C7: when the resolver callback is consulted and returns an error,          *)
(* resolveDialect returns that error wrapped and no name: neither the live    *)
(* connection nor the default is used, nothing is built, and the callback is  *)
(* called once.                                                               *)
ResolverError_C7 ==
    LET wrapped == Wrap(opts.resolver.err, "dialect resolver failed")
    IN  /\ (BuildDone /\ ResolverFailed) =>
              res = [NoResult EXCEPT !.err = wrapped]
        /\ (ValidateResolved /\ ResolverFailed) =>
              /\ pc = "done"
              /\ val = [NoValidation EXCEPT !.ret = Returned(wrapped)]
        /\ ((BuildDone \/ ValidateResolved) /\ ResolverFailed) =>
              calls = [NoCalls EXCEPT !.resolver = 1]

Witness_C7 ==
    /\ BuildDone
    /\ ResolverFailed
    /\ db.present /\ db.name = <<"sqlite">>
    /\ res.err = <<"dialect resolver failed", "ERESOLVER">>
    /\ res.dialect = <<>>

(* C8 as stated: a name of the resolver callback that is empty or that the    *)
(* alias table does not recognize is no answer, and resolution continues with *)
(* the live connection's dialect, then the configured default.                *)
Recognized(name) == ToLower(TrimSpace(name)) \in DOMAIN opts.aliases

UnrecognizedIsNoAnswer_C8 ==
    (BuildDone /\ ResolverAnswered /\ ~Recognized(opts.resolver.name)) =>
        res.dialect = FirstAvailable(<<FromDB, opts.defaultDialect, defaultDialectName>>)

(* C8 amended: a name of the resolver callback that is empty or blank is no   *)
(* answer, and resolution continues with the live connection's dialect, then  *)
(* the configured default; a non-blank name the alias table does not          *)
(* recognize is the resolved dialect, trimmed and lower-cased.                *)
BlankIsNoAnswer_C8 ==
    (BuildDone /\ ResolverAnswered /\ ~Recognized(opts.resolver.name)) =>
        /\ calls.resolver = 1
        /\ IF TrimSpace(opts.resolver.name) = <<>>
           THEN res.dialect =
                    FirstAvailable(<<FromDB, opts.defaultDialect, defaultDialectName>>)
           ELSE res.dialect = ToLower(TrimSpace(opts.resolver.name))

Witness_C8 ==
    /\ BuildDone
    /\ ResolverAnswered
    /\ opts.resolver.name = <<"oracle">>
    /\ db.present /\ db.name = <<"sqlite">>
    /\ res.dialect = <<"oracle">>

(* C9: with no validation target (no explicit one, and validateDefault        *)
(* false), validate returns nil without building any dialect and without      *)
(* invoking the validation callback or the resolver, whatever the tree.       *)
NoExplicitTarget ==
    \A i \in DOMAIN opts.rawTargets : TrimSpace(opts.rawTargets[i]) = <<>>

NoTargetsNoop_C9 ==
    (op = "validate" /\ ~opts.validateDefault /\ NoExplicitTarget) =>
        /\ pc = "done"
        /\ val = [NoValidation EXCEPT !.ret = Returned(NoErr)]
        /\ calls = NoCalls

\* Over the empty tree, with a resolver callback registered that would fail.
Witness_C9 ==
    /\ op = "validate"
    /\ tree.entries = <<>>
    /\ ~opts.validateDefault /\ opts.rawTargets = <<>>
    /\ opts.resolver.set /\ opts.resolver.err # NoErr
    /\ val.ret.state = "returned"

(* C10: validate records a target as missing exactly when its build matched   *)
(* no file in any layer; when all targets are checked and none is missing,    *)
(* it returns nil and the validation callback is not invoked.                 *)
NoFiles(r) == \A i \in DOMAIN r.diagnostics : r.diagnostics[i].Files = 0

LoopDone == op = "validate" /\ val.targets # <<>> /\ val.i > Len(val.targets)

MissingIffNoFiles_C10 ==
    op = "validate" =>
        /\ \A k \in DOMAIN val.result.CheckedDialects :
              /\ val.result.CheckedDialects[k] = val.targets[k]
              /\ calls.builds[k].dialect = val.targets[k]
              /\ val.targets[k] \in DOMAIN val.result.MissingDialects
                    <=> NoFiles(calls.builds[k])
        /\ DOMAIN val.result.MissingDialects \subseteq
              {val.result.CheckedDialects[k] : k \in DOMAIN val.result.CheckedDialects}
        /\ (LoopDone /\ pc = "done" /\ DOMAIN val.result.MissingDialects = {}) =>
              /\ val.ret = Returned(NoErr)
              /\ calls.validator = 0
        /\ calls.validator > 0 => DOMAIN val.result.MissingDialects # {}

\* Two targets over a tree that only holds sqlite/: postgres is missing,
\* sqlite is not, and the validation callback is invoked.
Witness_C10 ==
    /\ op = "validate" /\ pc = "done"
    /\ val.result.CheckedDialects = <<<<"postgres">>, <<"sqlite">>>>
    /\ DOMAIN val.result.MissingDialects = {<<"postgres">>}
    /\ ~NoFiles(calls.builds[2])
    /\ calls.validator = 1

----------------------------------------------------------------------------
\* validate has built every target and found at least one without files.
SomeMissing == LoopDone /\ pc = "done" /\ DOMAIN val.result.MissingDialects # {}

(* C11: when a target is missing and a validation callback is configured,     *)
(* validate returns what the callback returns: its error, or nil, whatever    *)
(* was missing.                                                               *)
CallbackDecides_C11 ==
    (SomeMissing /\ opts.validator # "nil") =>
        /\ calls.validator = 1
        /\ opts.validator = "reject" => val.ret = Returned(<<"EVALIDATION">>)
        /\ opts.validator = "accept" => val.ret = Returned(NoErr)

\* Both targets are missing and the callback returns nil: validate returns nil.
Witness_C11 ==
    /\ SomeMissing
    /\ opts.validator = "accept"
    /\ DOMAIN val.result.MissingDialects = {<<"postgres">>, <<"sqlite">>}
    /\ val.ret = Returned(NoErr)
    /\ calls.validator = 1

(* C12: when a target is missing and no validation callback is configured,    *)
(* validate never returns: the default callback panics with one message that  *)
(* holds the source label, the registration index and, for every missing      *)
(* dialect, one line with its name and its reasons.                           *)
Lines == val.ret.message.missing

DefaultPanics_C12 ==
    (SomeMissing /\ opts.validator = "nil") =>
        /\ val.ret.state = "panicked"
        /\ calls.validator = 1
        /\ val.ret.message.label = opts.sourceLabel
        /\ val.ret.message.label # <<>>
        /\ val.ret.message.idx = val.result.RegistrationIdx
        /\ {Lines[k].dialect : k \in DOMAIN Lines} = DOMAIN val.result.MissingDialects
        /\ Len(Lines) = Cardinality(DOMAIN val.result.MissingDialects)
        /\ \A k \in DOMAIN Lines :
              /\ Lines[k].reasons = val.result.MissingDialects[Lines[k].dialect]
              /\ Lines[k].reasons # <<>>

\* Registration #1, labelled "app", lacks both postgres and sqlite.
Witness_C12 ==
    /\ SomeMissing
    /\ opts.validator = "nil"
    /\ val.ret.state = "panicked"
    /\ val.ret.message.label = <<"app">>
    /\ val.ret.message.idx = 1
    /\ Len(Lines) = 2

(* C13: in one validate call the validation callback is invoked at most once  *)
(* and only after every target has been built, one after another in target    *)
(* order; the result it is given lists in MissingDialects every target        *)
(* without files and in CheckedDialects all the requested targets in order.   *)
BuiltDialects == [k \in DOMAIN calls.builds |-> calls.builds[k].dialect]

ReportedOnce ==
    op = "validate" =>
        /\ calls.validator <= 1
        /\ Len(calls.builds) <= Len(val.targets)
        /\ BuiltDialects = SubSeq(val.targets, 1, Len(calls.builds))
        /\ calls.validator = 1 =>
              /\ BuiltDialects = val.targets
              /\ val.result.CheckedDialects = val.targets
              /\ val.result.RequestedTargets = val.targets
              /\ DOMAIN val.result.MissingDialects =
                    {val.targets[k] : k \in {j \in DOMAIN val.targets :
                                                NoFiles(calls.builds[j])}}

OneReport_C13 ==
    /\ []ReportedOnce
    /\ [][calls'.validator # calls.validator =>
            /\ Len(calls.builds) = Len(val.targets)
            /\ calls'.builds = calls.builds
            /\ val'.result = val.result]_vars

\* Of the targets postgres and sqlite, built in that order, only postgres is
\* missing when the callback is invoked.
Witness_C13 ==
    /\ op = "validate"
    /\ calls.validator = 1
    /\ BuiltDialects = <<<<"postgres">>, <<"sqlite">>>>
    /\ NoFiles(calls.builds[1]) /\ ~NoFiles(calls.builds[2])
    /\ val.result.CheckedDialects = <<<<"postgres">>, <<"sqlite">>>>
    /\ DOMAIN val.result.MissingDialects = {<<"postgres">>}
    /\ opts.validator = "reject"

----------------------------------------------------------------------------
(* C14: after any sequence of WithDialectAliases on a configuration that      *)
(* starts from the defaults, every value of the alias table is also a key of  *)
(* the table that maps to itself.                                             *)
SelfAliased(aliases) ==
    \A k \in DOMAIN aliases :
        aliases[k] \in DOMAIN aliases /\ aliases[aliases[k]] = aliases[k]

SelfAlias_C14 == SelfAliased(opts.aliases)

(* C15: WithDialectAliases on one configuration leaves the package's default  *)
(* alias table and the table of every other configuration as they were, and   *)
(* never removes a key from the configuration's own table.                    *)
OthersUntouched ==
    /\ tables["defaults"] = defaultDialectAliases
    /\ tables[aliasesOf("other")] = copyDialectAliases(defaultDialectAliases)
    /\ tables[aliasesOf("own")] = opts.aliases

AliasFrame_C15 ==
    /\ []OthersUntouched
    /\ [][DOMAIN opts.aliases \subseteq DOMAIN opts'.aliases]_vars

\* The configuration's own table has "maria" and has "postgres" overridden.
Witness_C15 ==
    /\ <<"maria">> \in DOMAIN opts.aliases
    /\ opts.aliases[<<"postgres">>] = <<"pgx">>
    /\ tables["defaults"][<<"postgres">>] = <<"postgres">>
    /\ <<"maria">> \notin DOMAIN tables[aliasesOf("other")]

----------------------------------------------------------------------------
(* C16: two builds with the same source tree, the same options and the same   *)
(* dialect return identical results: the same files in each layer and the     *)
(* same diagnostics, reason texts and order of searched directories included. *)

\* What build may return for the tree, the options and the dialect of res.
Rebuilds ==
    {buildForDialect(registration, res.dialect, iter) :
        iter \in IterOrders(opts, res.dialect)}

Deterministic_C16 == BuildRan => \A again \in Rebuilds : again = res

(* C17: when no directory is named after the canonical dialect but one is     *)
(* named after an alias of it, the dialect-specific layer is collected from   *)
(* that alias directory.                                                      *)
AliasDirs(dialect) ==
    {a \in DOMAIN opts.aliases :
        opts.aliases[a] = dialect /\ a # dialect /\ DirExists(tree, <<a>>)}

AliasDirectory_C17 ==
    (/\ BuildRan /\ res.err = NoErr
     /\ IsCanonical(res.dialect)
     /\ ~DirExists(tree, <<res.dialect>>)
     /\ AliasDirs(res.dialect) # {}) =>
        /\ res.diagnostics[3].Name \in AliasDirs(res.dialect)
        /\ WalkCompletes(<<res.diagnostics[3].Name>>, TRUE) =>
              FsOf(res, 3) = ExpectedOf(res, 3)

\* The same, for source filesystems whose Sub reports a missing directory.
AliasDirectoryChecked == tree.sub = "checks" => AliasDirectory_C17

(* C18: the root layer holds only SQL files that lie directly under the root, *)
(* and every file of a build comes from common/, from the root itself or from *)
(* the one directory of the build's dialect; the scenario tree built for      *)
(* sqlite gives 0.up.sql, 1.up.sql and the 2.up.sql of sqlite/, built for     *)
(* postgres the 2.up.sql of postgres/.                                        *)
FromTree(r, i) ==
    \A p \in DOMAIN FsOf(r, i) :
        \E k \in DOMAIN tree.entries :
            /\ Entry(k).path = LayerDir(r.diagnostics[i]) \o p
            /\ Entry(k).data = FsOf(r, i)[p]

ScenarioFiles(dialect) ==
    << (<<<<"0.up", ".sql">>>> :> Plain),
       (<<<<"1.up", ".sql">>>> :> Plain),
       (<<<<"2.up", ".sql">>>> :> IF dialect = <<"sqlite">> THEN Statement ELSE Plain) >>

RootOnly_C18 ==
    (BuildRan /\ res.err = NoErr) =>
        /\ \A p \in DOMAIN FsOf(res, 2) : Len(p) = 1
        /\ res.diagnostics[2].Files > 0 => FsOf(res, 2) = Expected(<<>>, FALSE, res.dialect)
        /\ \A i \in 1..3 : FromTree(res, i)
        /\ res.diagnostics[3].Name # res.dialect =>
              /\ res.diagnostics[3].Name \in DOMAIN opts.aliases
              /\ opts.aliases[res.diagnostics[3].Name] = normalize(opts, res.dialect)
        /\ (/\ tree.entries = Scenario
            /\ res.dialect \in {<<"postgres">>, <<"sqlite">>}
            /\ IsCanonical(res.dialect)) =>
              /\ res.fileSystems = ScenarioFiles(res.dialect)
              /\ res.diagnostics[3].Name = res.dialect

\* The scenario tree, built for sqlite.
Witness_C18 ==
    /\ BuildRan /\ res.err = NoErr
    /\ tree.entries = Scenario
    /\ res.dialect = <<"sqlite">>
    /\ Len(res.fileSystems) = 3
    /\ res.fileSystems[3] = (<<<<"2.up", ".sql">>>> :> Statement)

----------------------------------------------------------------------------
(* C19: when several goroutines call RegisterSQLMigrations on one Migrations  *)
(* value, no registration is lost or duplicated: once all calls have          *)
(* returned, Files holds every registered filesystem exactly once.            *)
Registered == UNION {{calling[g].migrations[k] : k \in DOMAIN calling[g].migrations} :
                        g \in {h \in 1..MaxGoroutines : calling[h].at = "returned"}}

Occurrences(f) == Cardinality({k \in DOMAIN Files : Files[k] = f})

AllReturned == \A g \in 1..MaxGoroutines : calling[g].at = "returned"

NoLostRegistration_C19 ==
    /\ \A f \in Registered : Occurrences(f) = 1
    /\ AllReturned =>
          /\ {Files[k] : k \in DOMAIN Files} = Registered
          /\ Len(Files) = Cardinality(Registered)
          /\ Len(Files) >= MaxGoroutines

\* All calls have returned; the last goroutine's filesystem was stored first.
Witness_C19 ==
    /\ AllReturned
    /\ Files[1] = MaxGoroutines
    /\ Len(Files) = MaxGoroutines

----------------------------------------------------------------------------
(* C20: query hooks are attached in ascending priority and, among equal       *)
(* priorities, in the order in which their options were applied; custom       *)
(* hooks have priority 0 unless one is given, bundebug 10 and bunotel 20; the *)
(* options WithBunotel, WithQueryHooks(A), WithBundebug,                      *)
(* WithQueryHooksPriority(5, B), WithQueryHooks(C) attach A, C, B, bundebug,  *)
(* bunotel.                                                                   *)

\* The place of the option that counts for a hook: the last one naming it.
AppliedAt(hook) ==
    CHOOSE k \in DOMAIN client.applied :
        /\ client.applied[k].hook = hook
        /\ \A j \in DOMAIN client.applied : client.applied[j].hook = hook => j <= k

Enabled(hook) ==
    /\ \E k \in DOMAIN client.applied : client.applied[k].hook = hook
    /\ hook = "bunotel" => cfg.otelIdentifier # <<>>

Before(h1, h2) ==
    \/ client.applied[AppliedAt(h1)].priority < client.applied[AppliedAt(h2)].priority
    \/ /\ client.applied[AppliedAt(h1)].priority = client.applied[AppliedAt(h2)].priority
       /\ AppliedAt(h1) < AppliedAt(h2)

OptionNames == [k \in DOMAIN client.applied |->
                   <<client.applied[k].name, client.applied[k].priority,
                     client.applied[k].hook>>]

TestedOptions ==
    << <<"WithBunotel", 20, "bunotel">>, <<"WithQueryHooks", 0, "A">>,
       <<"WithBundebug", 10, "bundebug">>, <<"WithQueryHooksPriority", 5, "B">>,
       <<"WithQueryHooks", 0, "C">> >>

HookOrder_C20 ==
    client.at = "ready" =>
        /\ {client.hooks[k] : k \in DOMAIN client.hooks}
              = {h \in CustomHooks \cup {"bundebug", "bunotel"} : Enabled(h)}
        /\ \A i, j \in DOMAIN client.hooks :
              i < j => Before(client.hooks[i], client.hooks[j])
        /\ (OptionNames = TestedOptions /\ cfg = Traced) =>
              client.hooks = <<"A", "C", "B", "bundebug", "bunotel">>

Witness_C20 ==
    /\ client.at = "ready"
    /\ OptionNames = TestedOptions
    /\ cfg = Traced
    /\ client.hooks = <<"A", "C", "B", "bundebug", "bunotel">>

----------------------------------------------------------------------------
(* C21: the reasons of a missing dialect are one for each layer whose         *)
(* diagnostic has file count 0, in the order common, root, dialect-specific,  *)
(* each with the layer's name and the reason of its diagnostic; target        *)
(* postgres over a tree that only holds sqlite/ gives one missing dialect,    *)
(* postgres, with three reasons.                                              *)
EmptyLayers(r) == SelectSeq(r.diagnostics, LAMBDA d : d.Files = 0)

Missing == val.result.MissingDialects

ReasonsPerLayer_C21 ==
    op = "validate" =>
        /\ \A k \in DOMAIN val.result.CheckedDialects :
              val.targets[k] \in DOMAIN Missing =>
                  /\ Len(Missing[val.targets[k]]) = Len(EmptyLayers(calls.builds[k]))
                  /\ LayersOf(calls.builds[k]) = <<layerCommon, layerRoot, layerDialect>>
                  /\ \A i \in DOMAIN Missing[val.targets[k]] :
                        /\ Missing[val.targets[k]][i].label
                              = EmptyLayers(calls.builds[k])[i].Name
                        /\ Missing[val.targets[k]][i].label # <<>>
                        /\ Missing[val.targets[k]][i].reason
                              = EmptyLayers(calls.builds[k])[i].Reason
                        /\ Missing[val.targets[k]][i].reason # NoReason
        /\ (LoopDone /\ tree.entries = OnlySqlite /\ val.targets = <<<<"postgres">>>>) =>
              /\ DOMAIN Missing = {<<"postgres">>}
              /\ Len(Missing[<<"postgres">>]) = 3
              /\ opts.aliases = defaultDialectAliases =>
                    [i \in 1..3 |-> Missing[<<"postgres">>][i].label]
                        = <<<<"common">>, <<"root">>, <<"postgres">>>>

\* Target postgres over the tree that only holds sqlite/.
Witness_C21 ==
    /\ LoopDone /\ pc = "done"
    /\ tree.entries = OnlySqlite
    /\ val.targets = <<<<"postgres">>>>
    /\ DOMAIN Missing = {<<"postgres">>}
    /\ Len(Missing[<<"postgres">>]) = 3

----------------------------------------------------------------------------
(* C22: the result handed to the validation callback holds the layer          *)
(* diagnostics of every dialect that was checked, those with coverage         *)
(* included, in target order.                                                 *)
RECURSIVE DiagnosticsOf(_, _)
\* The diagnostics of the builds, one build after another: of all of them,
\* or of the ones without files only.
DiagnosticsOf(builds, all) ==
    IF builds = <<>> THEN <<>>
    ELSE (IF all \/ NoFiles(Head(builds)) THEN Head(builds).diagnostics ELSE <<>>)
         \o DiagnosticsOf(Tail(builds), all)

FullDiagnostics_C22 ==
    (op = "validate" /\ calls.validator = 1) =>
        val.result.AvailableLayers = DiagnosticsOf(calls.builds, TRUE)

\* What the result does hold: the diagnostics of the missing dialects only.
MissingDiagnostics ==
    (op = "validate" /\ calls.validator = 1) =>
        val.result.AvailableLayers = DiagnosticsOf(calls.builds, FALSE)

----------------------------------------------------------------------------
(* C23: when none of the candidate directories of the dialect exists in the   *)
(* source tree, the dialect-specific diagnostic has file count 0 and a reason *)
(* that lists every candidate directory that was searched: the canonical name *)
(* and each of its aliases.                                                   *)
CandidateDirs(dialect) ==
    {normalize(opts, dialect)}
        \cup {a \in DOMAIN opts.aliases : opts.aliases[a] = normalize(opts, dialect)}

NoCandidateDir(dialect) == \A d \in CandidateDirs(dialect) : ~DirExists(tree, <<d>>)

Searched(d) == {d.Reason.arg[k] : k \in DOMAIN d.Reason.arg}

SearchedAll_C23 ==
    (BuildRan /\ Len(res.diagnostics) = 3 /\ NoCandidateDir(res.dialect)) =>
        /\ res.diagnostics[3].Files = 0
        /\ res.diagnostics[3].Reason.msg = "no dialect-specific directory found (searched:"
        /\ Searched(res.diagnostics[3]) = CandidateDirs(res.dialect)

\* The same, for source filesystems whose Sub reports a missing directory.
SearchedAllChecked == tree.sub = "checks" => SearchedAll_C23

----------------------------------------------------------------------------
(* C24: for a layer whose directory exists and that contributes no file, the  *)
(* reason says "no SQL files found" exactly when the layer holds no SQL file  *)
(* at all, and "SQL files exist but none match the dialect" exactly when it   *)
(* holds at least one SQL file and the annotation of every one excludes the   *)
(* dialect; a root whose only file is annotated mysql, built for postgres,    *)
(* gives the second.                                                          *)
Held(r, i) == SQLFiles(LayerDir(r.diagnostics[i]), Recursive(r.diagnostics[i]))

\* The file can be read and its annotation names other dialects only.
Excluded(k, dialect) == Entry(k).err = NoErr /\ ~Applies(Entry(k).data, dialect)

NoneFound(d) == d.Reason = Reason("no SQL files found in", <<d.Name>>)

NoneMatch(d, dialect) ==
    d.Reason = Reason("SQL files exist but none match dialect", <<dialect>>)

EmptyReason_C24 ==
    BuildRan =>
        /\ \A i \in DOMAIN res.diagnostics :
              (/\ DirExists(tree, LayerDir(res.diagnostics[i]))
               /\ res.diagnostics[i].Files = 0
               /\ ~Fails(res, i)) =>
                  /\ NoneFound(res.diagnostics[i]) <=> Held(res, i) = {}
                  /\ NoneMatch(res.diagnostics[i], res.dialect)
                        <=> /\ Held(res, i) # {}
                            /\ \A k \in Held(res, i) : Excluded(k, res.dialect)
        /\ (tree.entries = Legacy /\ res.dialect = <<"postgres">>) =>
              /\ res.diagnostics[2].Files = 0
              /\ NoneMatch(res.diagnostics[2], <<"postgres">>)

\* The root's only file is annotated mysql, the build is for postgres.
Witness_C24 ==
    /\ BuildRan /\ res.err = NoErr
    /\ tree.entries = Legacy
    /\ res.dialect = <<"postgres">>
    /\ NoneMatch(res.diagnostics[2], <<"postgres">>)

----------------------------------------------------------------------------
(* C25: with the default alias table, every alias and its canonical name      *)
(* normalize to the canonical name, and the candidate directories of the      *)
(* canonical name hold it and each of its aliases once, the canonical name    *)
(* first; a name the table does not hold normalizes to itself, trimmed and    *)
(* lower-cased, and a blank name to the empty string.                         *)
Count(seq, x) == Cardinality({k \in DOMAIN seq : seq[k] = x})

\* Names as a caller may write them: padded, in capitals, unknown, blank.
WrittenNames ==
    RawNames \cup {<<"\t", "MySQL", " ">>, <<"Maria">>, <<"oracle">>, <<"\t", " ">>, <<>>}

AliasesOfName(c) == {a \in DOMAIN defaultDialectAliases : defaultDialectAliases[a] = c}

\* dirs holds the canonical name c first, and c and the names once each.
CanonicalFirst(dirs, names, c) ==
    /\ dirs # <<>> /\ dirs[1] = c
    /\ Count(dirs, c) = 1
    /\ \A a \in names : Count(dirs, a) = 1

NormalizedNames(o) ==
    /\ \A a \in DOMAIN defaultDialectAliases :
          /\ normalize(o, a) = defaultDialectAliases[a]
          /\ normalize(o, defaultDialectAliases[a]) = defaultDialectAliases[a]
    /\ \A c \in {defaultDialectAliases[a] : a \in DOMAIN defaultDialectAliases} :
          \A iter \in IterOrders(o, c) :
              CanonicalFirst(candidateDirectories(o, c, iter), AliasesOfName(c), c)
    /\ \A name \in WrittenNames :
          /\ ToLower(TrimSpace(name)) \notin DOMAIN defaultDialectAliases =>
                normalize(o, name) = ToLower(TrimSpace(name))
          /\ TrimSpace(name) = <<>> => normalize(o, name) = <<>>

\* With no option applied the table is the default one.
DefaultAliases_C25 ==
    /\ nopts = 0 => NormalizedNames(opts)
    /\ (/\ opts.aliases = defaultDialectAliases
        /\ BuildRan /\ Len(res.diagnostics) = 3
        /\ res.diagnostics[3].Reason.msg
              = "no dialect-specific directory found (searched:") =>
          CanonicalFirst(res.diagnostics[3].Reason.arg, CandidateDirs(res.dialect),
                         normalize(opts, res.dialect))

\* A build for sqlite that searched sqlite, sqldialect and sqlite3, in this order.
Witness_C25 ==
    /\ BuildRan
    /\ opts.aliases = defaultDialectAliases
    /\ opts.explicitDialect = <<"sqlite">>
    /\ res.diagnostics[3].Reason
          = Reason("no dialect-specific directory found (searched:",
                   <<<<"sqlite">>, <<"sqldialect">>, <<"sqlite3">>>>)

----------------------------------------------------------------------------
(* C26: the validation targets are the explicit targets normalized, without   *)
(* the blank names and without the names whose normalized form came earlier   *)
(* in the list (two aliases of one dialect are such), in the order of first   *)
(* appearance; no dialect is built twice in one validate call.                *)
NormalizedTarget(k) == normalize(opts, opts.rawTargets[k])

\* The places of the explicit targets that are kept.
Firsts ==
    {k \in DOMAIN opts.rawTargets :
        /\ NormalizedTarget(k) # <<>>
        /\ \A j \in 1..(k - 1) : NormalizedTarget(j) # NormalizedTarget(k)}

TargetList_C26 ==
    op = "validate" =>
        /\ ~opts.validateDefault =>
              /\ Len(val.targets) = Cardinality(Firsts)
              /\ \A k \in Firsts :
                    val.targets[Cardinality({j \in Firsts : j <= k})] = NormalizedTarget(k)
        /\ \A i \in DOMAIN val.targets : val.targets[i] # <<>>
        /\ \A i, j \in DOMAIN calls.builds :
              calls.builds[i].dialect = calls.builds[j].dialect => i = j

\* The targets pg, sqlite, Postgres: postgres and sqlite are built, once each.
Witness_C26 ==
    /\ op = "validate" /\ pc = "done"
    /\ opts.rawTargets = <<<<"pg">>, <<"sqlite">>, <<"Postgres">>>>
    /\ val.targets = <<<<"postgres">>, <<"sqlite">>>>
    /\ BuiltDialects = <<<<"postgres">>, <<"sqlite">>>>

----------------------------------------------------------------------------
(* C27: for one db, a query hook whose identity (its type with its            *)
(* QueryHookKey or, without a key, its pointer) is already registered is not  *)
(* attached again, in the same call of registerQueryHooks or in a later one:  *)
(* every identity handed over is attached exactly once, and the hook attached *)
(* is the first one handed over with that identity.                           *)
RECURSIVE Flat(_)
Flat(given) == IF given = <<>> THEN <<>> ELSE Head(given) \o Flat(Tail(given))

Identified(hook) == hook # "nil" /\ hook \notin ValueHooks

Identity(hook) ==
    IF hook \in KeyedHooks THEN <<hookType(hook), "key", QueryHookKey(hook)>>
    ELSE <<hookType(hook), "pointer", hook>>

\* The places of the attached hooks that have the identity of the hook.
AttachedAs(attached, hook) ==
    {i \in DOMAIN attached :
        Identified(attached[i]) /\ Identity(attached[i]) = Identity(hook)}

FirstGiven(all, hook) ==
    all[CHOOSE k \in DOMAIN all :
            /\ Identified(all[k]) /\ Identity(all[k]) = Identity(hook)
            /\ \A j \in 1..(k - 1) :
                  ~(Identified(all[j]) /\ Identity(all[j]) = Identity(hook))]

AttachedOnce(all, attached) ==
    /\ \A k \in DOMAIN all :
          Identified(all[k]) =>
              /\ Cardinality(AttachedAs(attached, all[k])) = 1
              /\ \A i \in AttachedAs(attached, all[k]) :
                    attached[i] = FirstGiven(all, all[k])
    /\ \A i \in DOMAIN attached : Contains(all, attached[i])

Dedupe_C27 ==
    client.at = "ready" => AttachedOnce(Flat(client.given), client.hooks)

\* K1 and K2 came in one call and A in that call and in a later one: the db
\* has K1 and A, once each.
Witness_C27 ==
    /\ client.at = "ready"
    /\ client.given = <<<<"K1", "K2">>, <<"A">>, <<"A">>>>
    /\ client.hooks = <<"K1", "A">>

----------------------------------------------------------------------------
(* C28: after any sequence of options, validateDefault is set only while the  *)
(* list of explicit targets is empty; a validate call checks either the       *)
(* explicit targets, and then does not resolve a dialect, or the one resolved *)
(* dialect, never both.                                                       *)
ExplicitTargets == {normalize(opts, opts.rawTargets[k]) : k \in DOMAIN opts.rawTargets}

ExclusiveTargets_C28 ==
    /\ opts.validateDefault => opts.rawTargets = <<>>
    /\ op = "validate" =>
          /\ opts.validateDefault =>
                /\ Len(val.targets) <= 1
                /\ Len(calls.builds) <= 1
          /\ ~opts.validateDefault =>
                /\ calls.resolver = 0
                /\ \A i \in DOMAIN val.targets : val.targets[i] \in ExplicitTargets

\* Two options were applied, a resolver and WithValidationTargets without
\* names: validate built the resolved dialect only.
Witness_C28 ==
    /\ op = "validate" /\ pc = "done"
    /\ nopts = 2
    /\ opts.validateDefault /\ opts.rawTargets = <<>>
    /\ opts.resolver.set
    /\ calls.resolver = 1
    /\ Len(calls.builds) = 1

----------------------------------------------------------------------------
(* C29: in a build that returns no error, each of the three layers gives a    *)
(* virtual filesystem exactly when its diagnostic has a file count above 0,   *)
(* and exactly then its reason is empty; so an empty layer always has a       *)
(* reason, and the reasons of a built dialect never hold the generic "no SQL  *)
(* files discovered across any layer".                                        *)
GenericReason == Reason("no SQL files discovered across any layer", <<>>)

Explained(reasons) == \A k \in DOMAIN reasons : reasons[k].reason # GenericReason

LayerAccounted_C29 ==
    (BuildRan /\ res.err = NoErr) =>
        /\ Len(res.diagnostics) = 3
        /\ Len(res.fileSystems) = Cardinality(WithFiles(res, 3))
        /\ \A i \in 1..3 :
              /\ res.diagnostics[i].Files > 0 <=> res.diagnostics[i].Reason = NoReason
              /\ res.diagnostics[i].Files > 0 <=> DOMAIN FsOf(res, i) # {}
              /\ Cardinality(DOMAIN FsOf(res, i)) = res.diagnostics[i].Files
        /\ WithFiles(res, 3) # 1..3 =>
              /\ Explained(reasonsFromDiagnostics(res.diagnostics))
              /\ Len(reasonsFromDiagnostics(res.diagnostics))
                    = 3 - Cardinality(WithFiles(res, 3))

\* No common directory and no file at the root, one file in the dialect's
\* directory: one filesystem, two reasons.
Witness_C29 ==
    /\ BuildRan /\ res.err = NoErr
    /\ tree.sub = "checks"
    /\ res.diagnostics[1].Files = 0 /\ res.diagnostics[1].Reason.msg = "directory not found"
    /\ res.diagnostics[2].Files = 0 /\ res.diagnostics[2].Reason.msg = "no SQL files found in"
    /\ res.diagnostics[3].Files = 1
    /\ Len(res.fileSystems) = 1

----------------------------------------------------------------------------
(* C30 as stated: for every order in which WithDialectName,                   *)
(* WithDefaultDialect and WithDialectAliases are applied, the name that       *)
(* resolveDialect returns is non-empty and canonical under the final alias    *)
(* table: normalize leaves it unchanged.                                      *)
Resolved == BuildDone /\ ~ResolverFailed

Canonical_C30 ==
    Resolved =>
        /\ res.dialect # <<>>
        /\ normalize(opts, res.dialect) = res.dialect

\* What does hold: the name is never empty, and it is canonical as long as
\* the alias table is the default one.
CanonicalDefaultTable ==
    Resolved =>
        /\ res.dialect # <<>>
        /\ opts.aliases = defaultDialectAliases =>
              normalize(opts, res.dialect) = res.dialect

\* The build ran for a name that the final alias table maps elsewhere.
StaleDialect ==
    /\ Resolved /\ res.err = NoErr
    /\ res.dialect = <<"postgres">>
    /\ normalize(opts, res.dialect) = <<"pgx">>

====
